---- MODULE Spec2Model ----
(***************************************************************************)
(* Scrape-and-download pipeline of The Blackbook Archive:                  *)
(*   - zlibrary/client.go   session HTTP client (MakeRequest, lastReferrer)*)
(*   - zlibrary search      SearchZLibrary                                 *)
(*   - main.go / app        detail selection, streaming download           *)
(*   - download/progress.go ProgressWriter                                 *)
(***************************************************************************)
EXTENDS Integers, Sequences, FiniteSets, TLC

(***************************************************************************)
(* Bounds of the model.                                                    *)
(***************************************************************************)
\* number of MakeRequest calls (completed or in flight) in one behaviour
MaxCalls == 3

\* number of Read calls io.Copy makes on one response body
MaxReads == 5
\* longest query string
MaxQueryLen == 2
\* largest number of result cards on a page
MaxCards == 2
\* number of fetchAndDisplayDetails goroutines started in one behaviour
MaxFetches == 2
\* links in the other-formats container of a detail page
MaxAlternates == 2
\* convert-to elements of a detail page
MaxConverts == 2
\* state changes the background tasks make in one behaviour
MaxChanges == 4
\* goroutines of fetchAndCacheTexture followed
MaxTextureFetches == 2
\* length of the file names tried, and of what follows the filling in the
\* long ones
MaxNameLen == 3
\* client.go:103   maxLen := 200
maxLen == 200
\* goroutines started as performSearch and as startActualDownload
MaxSearchTasks == 2
MaxDownloadTasks == 2

(***************************************************************************)
(* Values.                                                                 *)
(***************************************************************************)
\* zlibrary/client.go:14
BaseURL == "https://z-library.sk"
\* URLs a request can be issued for or be redirected to
URLs == {BaseURL, "u1", "u2"}
\* a string http.NewRequest rejects
BadURL == "%zz"
\* response status codes: both edges of the [200,400) window and beyond
Statuses == {200, 399, 400}
\* the goroutines that call MakeRequest concurrently (search, detail fetch,
\* cover and thumbnail fetches are all started with `go`)
Callers == {1, 2}

\* A Go string variable is two machine words (data pointer, length).  A value
\* is written by one store per word; it is whole iff both words come from the
\* same string.
Whole(u) == [ptr |-> u, len |-> u]
IsWhole(s) == s.ptr = s.len

VARIABLES
    lastReferrer,   \* zlibrary/client.go:20  (two words)
    mrPc,           \* position of each caller inside MakeRequest
    mrRef,          \* the Referer value each caller has loaded (two words)
    mrFinal,        \* finalURL of each caller's response
    mrStatus,       \* resp.StatusCode of each caller's response
    callLog,        \* history: outcome of every returned MakeRequest call
    overlapped      \* history: two calls of MakeRequest have run at once

sessionVars == <<lastReferrer, mrPc, mrRef, mrFinal, mrStatus, callLog,
                 overlapped>>

VARIABLES
    dlPc,           \* position of the download goroutine (producer)
    dlResp,         \* what MakeRequest(downloadURL) returned
    dlTotal,        \* totalSize
    dlPending,      \* the event of the blocking send the producer is at
    dlAfter,        \* where the producer continues after that send
    dlReads,        \* number of Read calls made by io.Copy
    dlNr,           \* bytes returned by the current Read
    dlReadEr,       \* error returned by the current Read ("nil", "EOF", "err")
    pwCurrent,      \* ProgressWriter.Current (= io.Copy's written)
    copyErr,        \* what io.Copy returned: "none" before, "nil" or "err"
    progCh,         \* buffer of the progress channel
    chClosed,       \* close(progCh) has run
    destFile,       \* what is at filePath
    destFile0,      \* what was at filePath when the download started
    fileOpen,       \* outFile is open (its Close is deferred)
    fileWritten,    \* history: bytes the download has written to outFile
    sentLog,        \* history: events enqueued, with the sender
    sentWritten,    \* history: bytes in the file when each was enqueued
    dropLog,        \* history: events dropped by a non-blocking send
    cPc,            \* position of the consumer (the range loop over progCh)
    cCount,         \* history: number of events the consumer received
    recvLog,        \* history: the events the consumer received, in order
    progressShown,  \* what the progress display shows
    lastError,      \* consumer's lastError
    isDownloading,  \* gApp.isDownloading / progress bar shown
    dlOutcome       \* what the consumer reported ("none", "complete", "failed")

producerVars == <<dlPc, dlResp, dlTotal, dlPending, dlAfter, dlReads, dlNr,
                  dlReadEr, pwCurrent, copyErr>>
chanVars == <<progCh, chClosed, sentLog, sentWritten, dropLog>>
fileVars == <<destFile, destFile0, fileOpen, fileWritten>>
consumerVars == <<cPc, cCount, recvLog, progressShown, lastError, isDownloading,
                  dlOutcome>>
downloadVars == <<producerVars, chanVars, fileVars, consumerVars>>

VARIABLES
    srPc,           \* a direct call of SearchZLibrary: "idle" or "returned"
    srQuery,        \* its argument
    srRefBefore,    \* history: lastReferrer when the call was made
    srRequests,     \* history: the GET requests the call issued
    srResp,         \* history: what the server answered
    srOut           \* what the call returned: results, finalURL, err

searchVars == <<srPc, srQuery, srRefBefore, srRequests, srResp, srOut>>

VARIABLES
    psPc,           \* position of the performSearch goroutine
    psQuery,        \* its trimmedQuery
    isSearching,    \* gApp.isSearching
    searchResults,  \* gApp.searchResults
    searchResultErr,\* gApp.searchResultErr
    statusText,     \* gApp.statusText (the kind of message shown)
    selectedResultIdx, \* gApp.selectedResultIdx
    selectedBook,   \* gApp.selectedBook
    selectedBookErr,\* gApp.selectedBookErr
    selectedBookURL,\* gApp.selectedBookURL
    isFetchingDetails, \* gApp.isFetchingDetails
    coverFetches,   \* cover URLs for which fetchAndCacheTexture was started
    fdPc,           \* position of each fetchAndDisplayDetails goroutine
    fdURL,          \* its bookURL
    fdOut,          \* what its GetBookDetails call returned
    clickLog        \* history: the rows selected, in order

uiSearchVars == <<psPc, psQuery, isSearching, searchResults,
                  searchResultErr>>
uiDetailVars == <<selectedResultIdx, selectedBook, selectedBookErr,
                  selectedBookURL, isFetchingDetails, coverFetches, fdPc, fdURL,
                  fdOut, clickLog>>
uiVars == <<uiSearchVars, uiDetailVars, statusText>>

VARIABLES
    gdPc,           \* a direct call of GetBookDetails: "idle", "requested", "returned"
    gdURL,          \* its argument bookURL
    gdRefBefore,    \* history: lastReferrer when the call was made
    gdResp,         \* history: what the server answered
    gdOut           \* what the call returned: details, finalURL, err

extractVars == <<gdPc, gdURL, gdRefBefore, gdResp, gdOut>>

VARIABLES
    updateSignal,   \* main.go:480  number of values buffered in updateSignal
    taskPc,         \* position of each background task
    changes,        \* history: number of state changes made by the tasks
    shown,          \* the state change the last frame has drawn
    signalsSinceDrain  \* history: signalUpdate calls since the last drain

signalVars == <<updateSignal, taskPc, changes, shown, signalsSinceDrain>>

VARIABLES
    imageCache,     \* gApp.imageCache: image URL -> texture, NoTexture if absent
    cacheReaders,   \* the goroutines holding gApp.cacheMutex for reading
    cacheWriters,   \* the goroutines holding gApp.cacheMutex for writing
    icPc,           \* position of the UI thread (0) and of each
                    \* fetchAndCacheTexture goroutine
    icURL,          \* the image URL each of them works on
    icResult,       \* how each fetchAndCacheTexture goroutine ended
    icWrites        \* history: the insertions into the map, in order

cacheVars == <<imageCache, cacheReaders, cacheWriters, icPc, icURL, icResult,
               icWrites>>

VARIABLES
    sfPc,           \* a call of SanitizeFilename: "idle" or "returned"
    sfIn,           \* its argument
    sfOut           \* what it returned

sanitizeVars == <<sfPc, sfIn, sfOut>>

VARIABLES
    searchInitiated, \* gApp.searchInitiated
    showErrorPopup,  \* gApp.showErrorPopup
    spPc,            \* position of each goroutine started as performSearch
    spQuery,         \* its query
    dtPc             \* position of each goroutine started as startActualDownload

launchVars == <<searchInitiated, showErrorPopup, spPc, spQuery, dtPc>>

otherVars == <<cacheVars, sanitizeVars, launchVars>>
\* everything outside the session client and the image cache
outsideCache == <<downloadVars, searchVars, uiVars, extractVars, signalVars,
                  sanitizeVars, launchVars>>

\* everything outside the session client, and outside session and downloader
outsideSession == <<downloadVars, searchVars, uiVars, extractVars, signalVars,
                    otherVars>>
outsideDownload == <<searchVars, uiVars, extractVars, signalVars, otherVars>>

vars == <<sessionVars, downloadVars, searchVars, uiVars, extractVars, signalVars,
          otherVars>>

(***************************************************************************)
(* Session HTTP client: zlibrary/client.go                                 *)
(***************************************************************************)
\* client.go:73 with a wrong upper edge
ShouldUpdateReferrer_NoUpperEdge(status) == status >= 200
\* client.go:73   resp.StatusCode >= 200 && resp.StatusCode < 400
ShouldUpdateReferrer(status) == status >= 200 /\ status < 400

\* client.go:22-37 without line 36: lastReferrer keeps its zero value
InitSession_NoReferrer ==
    /\ lastReferrer = Whole("")
    /\ mrPc = [p \in Callers |-> "idle"]
    /\ mrRef = [p \in Callers |-> Whole(BaseURL)]
    /\ mrFinal = [p \in Callers |-> BaseURL]
    /\ mrStatus = [p \in Callers |-> 0]
    /\ callLog = <<>>
    /\ overlapped = FALSE
\* client.go:22-37   init(): lastReferrer = baseURLParsed.String()
InitSession ==
    /\ lastReferrer = Whole(BaseURL)
    /\ mrPc = [p \in Callers |-> "idle"]
    /\ mrRef = [p \in Callers |-> Whole(BaseURL)]
    /\ mrFinal = [p \in Callers |-> BaseURL]
    /\ mrStatus = [p \in Callers |-> 0]
    /\ callLog = <<>>
    /\ overlapped = FALSE

InFlight == {p \in Callers : mrPc[p] # "idle"}

LogEntry(isErr, final, status) ==
    [err |-> isErr, final |-> final, status |-> status]

\* client.go:43-46   http.NewRequest; a malformed URL returns at once
MakeRequest_Begin(p, urlStr) ==
    /\ mrPc[p] = "idle"
    /\ Len(callLog) + Cardinality(InFlight) < MaxCalls
    /\ IF urlStr = BadURL
         THEN /\ callLog' = Append(callLog, LogEntry(TRUE, urlStr, 0))
              /\ UNCHANGED <<lastReferrer, mrPc, mrRef, mrFinal, mrStatus,
                             overlapped, outsideSession>>
         ELSE /\ mrPc' = [mrPc EXCEPT ![p] = "loadPtr"]
              /\ overlapped' = (overlapped \/ InFlight # {})
              /\ UNCHANGED <<lastReferrer, mrRef, mrFinal, mrStatus, callLog,
                             outsideSession>>

\* client.go:55-57   the unsynchronised load of lastReferrer, first word
MakeRequest_LoadPtr(p) ==
    /\ mrPc[p] = "loadPtr"
    /\ mrRef' = [mrRef EXCEPT ![p].ptr = lastReferrer.ptr]
    /\ mrPc' = [mrPc EXCEPT ![p] = "loadLen"]
    /\ UNCHANGED <<lastReferrer, mrFinal, mrStatus, callLog, overlapped, outsideSession>>

\* client.go:55-57   second word; the Referer header is then set from mrRef
MakeRequest_LoadLen(p) ==
    /\ mrPc[p] = "loadLen"
    /\ mrRef' = [mrRef EXCEPT ![p].len = lastReferrer.len]
    /\ mrPc' = [mrPc EXCEPT ![p] = "do"]
    /\ UNCHANGED <<lastReferrer, mrFinal, mrStatus, callLog, overlapped, outsideSession>>

\* client.go:60-63   httpClient.Do fails: return nil, err
MakeRequest_DoError(p) ==
    /\ mrPc[p] = "do"
    /\ callLog' = Append(callLog, LogEntry(TRUE, BaseURL, 0))
    /\ mrPc' = [mrPc EXCEPT ![p] = "idle"]
    /\ UNCHANGED <<lastReferrer, mrRef, mrFinal, mrStatus, overlapped, outsideSession>>

\* client.go:60-80   httpClient.Do answers with (finalURL, status)
MakeRequest_DoResponse(p, final, status) ==
    /\ mrPc[p] = "do"
    /\ mrFinal' = [mrFinal EXCEPT ![p] = final]
    /\ mrStatus' = [mrStatus EXCEPT ![p] = status]
    /\ IF ShouldUpdateReferrer(status)
         THEN /\ mrPc' = [mrPc EXCEPT ![p] = "storePtr"]
              /\ UNCHANGED callLog
         ELSE /\ mrPc' = [mrPc EXCEPT ![p] = "idle"]
              /\ callLog' = Append(callLog, LogEntry(FALSE, final, status))
    /\ UNCHANGED <<lastReferrer, mrRef, overlapped, outsideSession>>

\* client.go:74   lastReferrer = finalURL, first word
MakeRequest_StorePtr(p) ==
    /\ mrPc[p] = "storePtr"
    /\ lastReferrer' = [lastReferrer EXCEPT !.ptr = mrFinal[p]]
    /\ mrPc' = [mrPc EXCEPT ![p] = "storeLen"]
    /\ UNCHANGED <<mrRef, mrFinal, mrStatus, callLog, overlapped, outsideSession>>

\* client.go:74,80   second word, then return resp
MakeRequest_StoreLen(p) ==
    /\ mrPc[p] = "storeLen"
    /\ lastReferrer' = [lastReferrer EXCEPT !.len = mrFinal[p]]
    /\ mrPc' = [mrPc EXCEPT ![p] = "idle"]
    /\ callLog' = Append(callLog, LogEntry(FALSE, mrFinal[p], mrStatus[p]))
    /\ UNCHANGED <<mrRef, mrFinal, mrStatus, overlapped, outsideSession>>

MakeRequest(p) ==
    \/ \E u \in URLs \cup {BadURL} : MakeRequest_Begin(p, u)
    \/ MakeRequest_LoadPtr(p)
    \/ MakeRequest_LoadLen(p)
    \/ MakeRequest_DoError(p)
    \/ \E f \in URLs, s \in Statuses : MakeRequest_DoResponse(p, f, s)
    \/ MakeRequest_StorePtr(p)
    \/ MakeRequest_StoreLen(p)


(***************************************************************************)
(* Streaming downloader: app/ui_handlers.go startActualDownload (Fyne),    *)
(* main.go startActualDownload (giu), download/progress.go                 *)
(***************************************************************************)
\* ui_handlers.go:230   make(chan download.DownloadProgress, 5)
\* (main.go:726 makes the same channel with a buffer of 10)
ChanCap == 5

\* numbers of bytes one Read of the body returns (0: none)
ChunkSizes == {0, 1, 2}

NoFile == [kind |-> "absent", size |-> 0]
OldFile == [kind |-> "old", size |-> 0]
NewFile(n) == [kind |-> "new", size |-> n]

\* progress.go:8-12   DownloadProgress{Current, Total, Err}
Event(cur, total, err) == [cur |-> cur, total |-> total, err |-> err]
NoEvent == Event(0, 0, "nil")

\* Content-Length headers: absent or unparsable, and parsed values
ContentLengths ==
    {[parses |-> FALSE, value |-> 0]} \cup
    {[parses |-> TRUE, value |-> v] : v \in {-2, 0, 4}}

\* responses of MakeRequest(downloadURL)
DownloadResponses ==
    {[err |-> TRUE, final |-> BaseURL, status |-> 0, html |-> FALSE,
      clen |-> [parses |-> FALSE, value |-> 0]]} \cup
    {[err |-> FALSE, final |-> f, status |-> s, html |-> h, clen |-> c] :
        f \in {"u1"}, s \in {200, 400}, h \in BOOLEAN, c \in ContentLengths}

\* ui_handlers.go:278-282 / main.go:760-763
\* totalSize, _ := strconv.ParseInt(...); if totalSize <= 0 { totalSize = -1 }
TotalSize(clen) ==
    LET parsed == IF clen.parses THEN clen.value ELSE 0
    IN  IF parsed <= 0 THEN -1 ELSE parsed

\* ui_handlers.go:239-275 where an HTML page is let through
RejectReason_AcceptsHTML(resp) ==
    IF resp.err THEN "request"
    ELSE IF resp.status # 200 THEN "status"
    ELSE "nil"
\* ui_handlers.go:239-275 / main.go:735-758   the three early returns, in order
RejectReason(resp) ==
    IF resp.err THEN "request"
    ELSE IF resp.html THEN "html"
    ELSE IF resp.status # 200 THEN "status"
    ELSE "nil"

\* a send that gives up when the buffer is full
BlockingSend_DropsWhenFull(ev, src) ==
    IF Len(progCh) < ChanCap
      THEN /\ progCh' = Append(progCh, ev)
           /\ sentLog' = Append(sentLog, [ev |-> ev, src |-> src])
           /\ sentWritten' = Append(sentWritten, fileWritten')
           /\ UNCHANGED <<chClosed, dropLog>>
      ELSE /\ dropLog' = Append(dropLog, [ev |-> ev, src |-> src])
           /\ UNCHANGED <<progCh, chClosed, sentLog, sentWritten>>
\* ui_handlers.go:240,264,273,284,289,316,321   progCh <- ev
\* the goroutine waits until the buffer has room
BlockingSend(ev, src) ==
    /\ Len(progCh) < ChanCap
    /\ progCh' = Append(progCh, ev)
    /\ sentLog' = Append(sentLog, [ev |-> ev, src |-> src])
    /\ sentWritten' = Append(sentWritten, fileWritten')
    /\ UNCHANGED <<chClosed, dropLog>>

\* progress.go:41-46   select { case pw.ProgCh <- update: default: }
NonBlockingSend(ev, src) ==
    IF Len(progCh) < ChanCap
      THEN /\ progCh' = Append(progCh, ev)
           /\ sentLog' = Append(sentLog, [ev |-> ev, src |-> src])
           /\ sentWritten' = Append(sentWritten, fileWritten')
           /\ UNCHANGED <<chClosed, dropLog>>
      ELSE /\ dropLog' = Append(dropLog, [ev |-> ev, src |-> src])
           /\ UNCHANGED <<progCh, chClosed, sentLog, sentWritten>>

InitDownload ==
    /\ dlPc = "idle"
    /\ dlResp = [err |-> TRUE, final |-> BaseURL, status |-> 0, html |-> FALSE,
                 clen |-> [parses |-> FALSE, value |-> 0]]
    /\ dlTotal = 0
    /\ dlPending = NoEvent
    /\ dlAfter = "idle"
    /\ dlReads = 0
    /\ dlNr = 0
    /\ dlReadEr = "nil"
    /\ pwCurrent = 0
    /\ copyErr = "none"
    /\ progCh = <<>>
    /\ chClosed = FALSE
    /\ destFile = NoFile
    /\ destFile0 = NoFile
    /\ fileOpen = FALSE
    /\ fileWritten = 0
    /\ sentLog = <<>>
    /\ sentWritten = <<>>
    /\ dropLog = <<>>
    /\ cPc = "idle"
    /\ cCount = 0
    /\ recvLog = <<>>
    /\ progressShown = "none"
    /\ lastError = "nil"
    /\ isDownloading = FALSE
    /\ dlOutcome = "none"

\* ui_handlers.go:223-232, 329 / main.go:717-729   startActualDownload: the
\* channel is made and the producer and the consumer start.  The destination
\* may already hold a file (the user confirmed the overwrite).
StartActualDownload(existing) ==
    /\ dlPc = "idle" /\ cPc = "idle"
    /\ destFile' = existing
    /\ destFile0' = existing
    /\ isDownloading' = TRUE
    /\ dlPc' = "request"
    /\ cPc' = "loop"
    /\ UNCHANGED <<dlResp, dlTotal, dlPending, dlAfter, dlReads, dlNr, dlReadEr, copyErr,
                   pwCurrent, chanVars, fileOpen, fileWritten, cCount, recvLog,
                   progressShown, lastError, dlOutcome, sessionVars,
                   outsideDownload>>

\* ui_handlers.go:238-284 / main.go:734-764   MakeRequest and the checks of
\* the response, up to the send each branch ends with
Download_Request(resp) ==
    /\ dlPc = "request"
    /\ dlResp' = resp
    /\ lastReferrer' = IF ~resp.err /\ ShouldUpdateReferrer(resp.status)
                         THEN Whole(resp.final) ELSE lastReferrer
    /\ callLog' = Append(callLog, LogEntry(resp.err, resp.final, resp.status))
    /\ IF RejectReason(resp) # "nil"
         THEN /\ dlPending' = Event(0, 0, RejectReason(resp))
              /\ dlAfter' = "close"
              /\ UNCHANGED dlTotal
         ELSE /\ dlTotal' = TotalSize(resp.clen)
              /\ dlPending' = Event(0, TotalSize(resp.clen), "nil")
              /\ dlAfter' = "create"
    /\ dlPc' = "send"
    /\ UNCHANGED <<dlReads, dlNr, dlReadEr, copyErr, pwCurrent, chanVars, fileVars,
                   consumerVars, mrPc, mrRef, mrFinal, mrStatus, overlapped, outsideDownload>>

\* the blocking send the goroutine is at
Download_Send ==
    /\ dlPc = "send"
    /\ UNCHANGED fileVars
    /\ BlockingSend(dlPending, "goroutine")
    /\ dlPc' = dlAfter
    /\ UNCHANGED <<dlResp, dlTotal, dlPending, dlAfter, dlReads, dlNr, dlReadEr, copyErr,
                   pwCurrent, consumerVars, sessionVars, outsideDownload>>

\* ui_handlers.go:287-291 / main.go:766-770   os.Create(filePath)
Download_Create(ok) ==
    /\ dlPc = "create"
    /\ IF ok
         THEN /\ destFile' = NewFile(0)
              /\ fileOpen' = TRUE
              /\ dlPc' = "read"
              /\ UNCHANGED <<dlPending, dlAfter>>
         ELSE /\ dlPending' = Event(0, 0, "create")
              /\ dlAfter' = "close"
              /\ dlPc' = "send"
              /\ UNCHANGED <<destFile, fileOpen>>
    /\ UNCHANGED <<dlResp, dlTotal, dlReads, dlNr, dlReadEr, copyErr, pwCurrent, chanVars,
                   destFile0, fileWritten, consumerVars, sessionVars,
                   outsideDownload>>

\* ui_handlers.go:306-322 / main.go:780-789   what follows io.Copy's return
AfterCopy(copyFailed) ==
    IF copyFailed
      THEN /\ dlPc' = "remove"
           /\ copyErr' = "err"
           /\ UNCHANGED <<dlPending, dlAfter>>
      ELSE /\ dlPending' = Event(pwCurrent', dlTotal, "nil")
           /\ dlAfter' = "close"
           /\ dlPc' = "send"
           /\ copyErr' = "nil"

\* ui_handlers.go:303   io.Copy: one Read of resp.Body returning (nr, er).
\* The body ends: the client's Timeout (client.go:29) covers reading it, so
\* the last Read followed returns EOF or an error.
Download_Read(nr, er) ==
    /\ dlPc = "read"
    /\ dlReads < MaxReads
    /\ nr > 0 \/ er # "nil"
    /\ dlReads + 1 < MaxReads \/ er # "nil"
    /\ dlReads' = dlReads + 1
    /\ dlNr' = nr
    /\ dlReadEr' = er
    /\ pwCurrent' = pwCurrent
    /\ IF nr > 0
         THEN dlPc' = "write" /\ UNCHANGED <<dlPending, dlAfter, copyErr>>
         ELSE AfterCopy(er = "err")
    /\ UNCHANGED <<dlResp, dlTotal, chanVars, fileVars, consumerVars, sessionVars, outsideDownload>>

\* progress.go:34 where the count is overwritten instead of accumulated
NextCurrent_Overwrites(cur, n) == n
\* progress.go:34   pw.Current += int64(n)
NextCurrent(cur, n) == cur + n

\* progress.go:32-51   ProgressWriter.Write(p) with len(p) = dlNr, called by
\* io.Copy; nw bytes reach the file, and the write fails iff nw < len(p)
\* (os.File.Write returns an error for every short write)
ProgressWriter_Write(nw) ==
    /\ dlPc = "write"
    /\ nw \in 0..dlNr
    /\ destFile' = NewFile(destFile.size + nw)
    /\ fileWritten' = fileWritten + nw
    /\ pwCurrent' = NextCurrent(pwCurrent, nw)
    /\ NonBlockingSend(Event(NextCurrent(pwCurrent, nw), dlTotal,
                             IF nw < dlNr THEN "write" ELSE "nil"), "writer")
    /\ IF nw < dlNr THEN AfterCopy(TRUE)
       ELSE IF dlReadEr = "nil"
              THEN dlPc' = "read" /\ UNCHANGED <<dlPending, dlAfter, copyErr>>
              ELSE AfterCopy(dlReadEr = "err")
    /\ UNCHANGED <<dlResp, dlTotal, dlReads, dlNr, dlReadEr, destFile0, fileOpen,
                   consumerVars, sessionVars, outsideDownload>>

\* ui_handlers.go:312-316 / main.go:782-785   os.Remove(filePath), which may
\* fail (the failure is only logged), then the final error event is built.
\* outFile is still open here: its Close is deferred to the goroutine's exit.
Download_Remove(removed) ==
    /\ dlPc = "remove"
    /\ destFile' = IF removed THEN NoFile ELSE destFile
    /\ dlPending' = Event(pwCurrent, dlTotal, "interrupted")
    /\ dlAfter' = "close"
    /\ dlPc' = "send"
    /\ UNCHANGED <<dlResp, dlTotal, dlReads, dlNr, dlReadEr, copyErr, pwCurrent, chanVars,
                   destFile0, fileOpen, fileWritten, consumerVars, sessionVars,
                   outsideDownload>>

\* the deferred calls without `defer close(progCh)`
Download_Close_LeavesChannelOpen ==
    /\ dlPc = "close"
    /\ fileOpen' = FALSE
    /\ chClosed' = chClosed
    /\ dlPc' = "done"
    /\ UNCHANGED <<dlResp, dlTotal, dlPending, dlAfter, dlReads, dlNr, dlReadEr, copyErr,
                   pwCurrent, progCh, sentLog, sentWritten, dropLog, destFile,
                   destFile0,
                   fileWritten, consumerVars, sessionVars, outsideDownload>>
\* ui_handlers.go:233,243,293-299 / main.go:730,739,771-775   the deferred
\* calls: outFile.Close(), resp.Body.Close(), close(progCh)
Download_Close ==
    /\ dlPc = "close"
    /\ fileOpen' = FALSE
    /\ chClosed' = TRUE
    /\ dlPc' = "done"
    /\ UNCHANGED <<dlResp, dlTotal, dlPending, dlAfter, dlReads, dlNr, dlReadEr, copyErr,
                   pwCurrent, progCh, sentLog, sentWritten, dropLog, destFile,
                   destFile0,
                   fileWritten, consumerVars, sessionVars, outsideDownload>>

\* main.go:801-807 (ui_handlers.go:346-355)   a fraction of the total when
\* update.Total > 0, an indeterminate display otherwise
ProgressDisplay(update) ==
    IF update.total > 0 THEN "fraction" ELSE "indeterminate"

\* ui_handlers.go:334-363 / main.go:794-809   one iteration of
\* `for update := range progCh`: an event carrying an error breaks the loop
Consumer_Receive ==
    /\ cPc = "loop"
    /\ Len(progCh) > 0
    /\ progCh' = Tail(progCh)
    /\ cCount' = cCount + 1
    /\ recvLog' = Append(recvLog, Head(progCh))
    /\ lastError' = Head(progCh).err
    /\ progressShown' = IF Head(progCh).err # "nil" THEN progressShown
                        ELSE ProgressDisplay(Head(progCh))
    /\ cPc' = IF Head(progCh).err # "nil" THEN "final" ELSE "loop"
    /\ UNCHANGED <<producerVars, chClosed, sentLog, sentWritten, dropLog, fileVars,
                   isDownloading, dlOutcome, sessionVars, outsideDownload>>

\* the range loop ends when the channel is closed and drained
Consumer_ChannelClosed ==
    /\ cPc = "loop"
    /\ Len(progCh) = 0
    /\ chClosed
    /\ cPc' = "final"
    /\ UNCHANGED <<producerVars, chanVars, fileVars, cCount, recvLog,
                   progressShown, lastError, isDownloading, dlOutcome,
                   sessionVars, outsideDownload>>

\* ui_handlers.go:366-385 / main.go:812-824   the final state update
Consumer_Final ==
    /\ cPc = "final"
    /\ isDownloading' = FALSE
    /\ dlOutcome' = IF lastError # "nil" THEN "failed" ELSE "complete"
    /\ cPc' = "done"
    /\ UNCHANGED <<producerVars, chanVars, fileVars, cCount, recvLog,
                   progressShown, lastError, sessionVars, outsideDownload>>

NextDownload ==
    \/ \E f \in {NoFile, OldFile} : StartActualDownload(f)
    \/ dlPc = "request" /\ \E r \in DownloadResponses : Download_Request(r)
    \/ Download_Send
    \/ \E ok \in BOOLEAN : Download_Create(ok)
    \/ \E nr \in ChunkSizes, er \in {"nil", "EOF", "err"} : Download_Read(nr, er)
    \/ \E nw \in ChunkSizes : ProgressWriter_Write(nw)
    \/ \E removed \in BOOLEAN : Download_Remove(removed)
    \/ Download_Close
    \/ Consumer_Receive
    \/ Consumer_ChannelClosed
    \/ Consumer_Final


(***************************************************************************)
(* Search extractor: SearchZLibrary (app/ui_helpers.go:566-708)            *)
(***************************************************************************)
\* client.go:15
SearchPath == "/s/"

\* strings are sequences of characters; " " stands for every white space
Chars == {" ", "a"}
Strings(n) == UNION {[1..k -> Chars] : k \in 0..n}
Queries == Strings(MaxQueryLen)

IsSpace(c) == c = " "
RECURSIVE TrimLeft(_)
TrimLeft(str) ==
    IF str # <<>> /\ IsSpace(Head(str)) THEN TrimLeft(Tail(str)) ELSE str
RECURSIVE TrimRight(_)
TrimRight(str) ==
    IF str # <<>> /\ IsSpace(str[Len(str)])
      THEN TrimRight(SubSeq(str, 1, Len(str) - 1)) ELSE str
\* strings.TrimSpace
TrimSpace(str) == TrimRight(TrimLeft(str))

\* url.Values.Encode / url.QueryEscape: a space is sent as "+"
QueryEscape(str) == [i \in 1..Len(str) |-> IF str[i] = " " THEN "+" ELSE str[i]]
\* what the server decodes the parameter to
QueryUnescape(str) == [i \in 1..Len(str) |-> IF str[i] = "+" THEN " " ELSE str[i]]

\* ui_helpers.go:572-581   BaseURL joined with SearchPath, q set to the query
SearchURL(query) == [path |-> SearchPath, q |-> QueryEscape(query)]

\* One element matched by div#searchResultBox div.book-item.resItemBoxBooks:
\*   zb    the z-bookcard inside it: absent, or present with an href that is
\*         missing/empty, unresolvable, or usable
\*   link  the h3[itemprop='name'] a inside it, likewise
\*   slot  the z-bookcard has a div[slot='title']
\*   id    the z-bookcard has an id attribute
HrefKinds == {"absent", "emptyhref", "badhref", "ok"}
Card(zb, link, slot, id) == [zb |-> zb, link |-> link, slot |-> slot, id |-> id]
CardShapes ==
    {Card("ok", l, sl, id) : l \in {"absent", "ok"}, sl \in BOOLEAN, id \in BOOLEAN} \cup
    {Card(z, l, FALSE, FALSE) : z \in {"emptyhref", "badhref"}, l \in {"absent", "ok"}} \cup
    {Card("absent", l, FALSE, FALSE) : l \in HrefKinds}
Pages == UNION {[1..k -> CardShapes] : k \in 0..MaxCards}

\* The texts and attributes of the card at index i are named after i, so that
\* every card of a page is told from every other.
Text(from, i) == [from |-> from, item |-> i]
TitleNA == Text("Title N/A", 0)
NoID == [present |-> FALSE, item |-> 0]
BookID(i) == [present |-> TRUE, item |-> i]
\* base.Parse(relativeURL) with base the final URL of the response
ResolveURL(final, from, i) == [base |-> final, href |-> Text(from, i)]

BookSearchResult(title, url, id) == [Title |-> title, URL |-> url, BookID |-> id]
Found(title, url, id) ==
    [ok |-> TRUE, result |-> BookSearchResult(title, url, id), why |-> "found"]
Skipped(why) ==
    [ok |-> FALSE, result |-> BookSearchResult(TitleNA, ResolveURL("", "", 0), NoID),
     why |-> why]

\* ui_helpers.go:627-658   secondary strategy: the direct title link
SecondaryOutcome(card, i, final) ==
    IF card.link = "absent"
      THEN Skipped("could not find z-bookcard or direct title link")
    ELSE IF card.link = "emptyhref"
      THEN Skipped("found direct link but missing href")
    ELSE IF card.link = "badhref"
      THEN Skipped("error resolving book URL")
    ELSE Found(Text("link", i), ResolveURL(final, "link", i), NoID)

\* ui_helpers.go:661-697   primary strategy: the z-bookcard element
PrimaryOutcome(card, i, final) ==
    IF card.zb = "emptyhref"
      THEN Skipped("book card missing href attribute")
    ELSE LET title == IF card.slot THEN Text("slot", i)
                      ELSE IF card.link # "absent" THEN Text("link", i)
                      ELSE TitleNA
         IN  IF card.zb = "badhref"
               THEN Skipped("error resolving book URL")
               ELSE Found(title, ResolveURL(final, "z-bookcard", i),
                          IF card.id THEN BookID(i) ELSE NoID)

\* ui_helpers.go:625-698   the body of the Each callback for item i
CardOutcome(card, i, final) ==
    IF card.zb = "absent"
      THEN SecondaryOutcome(card, i, final)
      ELSE PrimaryOutcome(card, i, final)

\* ui_helpers.go:622-699   results and parseErrors after Each has visited the
\* cards from position k on (item indices start at 0)
RECURSIVE ExtractFrom(_, _, _)
ExtractFrom(page, k, final) ==
    IF k > Len(page) THEN [results |-> <<>>, parseErrors |-> <<>>]
    ELSE LET o == CardOutcome(page[k], k - 1, final)
             rest == ExtractFrom(page, k + 1, final)
         IN  IF o.ok
               THEN [results |-> <<o.result>> \o rest.results,
                     parseErrors |-> rest.parseErrors]
               ELSE [results |-> rest.results,
                     parseErrors |-> <<Text(o.why, k - 1)>> \o rest.parseErrors]

NilError == [kind |-> "nil", count |-> 0]
Error(kind) == [kind |-> kind, count |-> 0]
SearchOutput(results, finalURL, err) ==
    [results |-> results, finalURL |-> finalURL, err |-> err]

\* what the search endpoint can answer; final is "search" when the request
\* was not redirected
SearchResponses ==
    {[err |-> TRUE, final |-> "search", status |-> 0, parses |-> FALSE, page |-> <<>>]}
    \cup {[err |-> FALSE, final |-> f, status |-> st, parses |-> FALSE, page |-> <<>>] :
            f \in {"search", "u1"}, st \in {200, 400}}
    \cup {[err |-> FALSE, final |-> f, status |-> 200, parses |-> TRUE, page |-> pg] :
            f \in {"search", "u1"}, pg \in Pages}

\* the aggregate error is returned only when no card could be parsed
SearchZLibrary_Result_DropsErrorOnPartial(resp) ==
    IF resp.err THEN SearchOutput(<<>>, "search", Error("search request failed"))
    ELSE IF resp.status # 200
      THEN SearchOutput(<<>>, resp.final, Error("search failed with status"))
    ELSE IF ~resp.parses
      THEN SearchOutput(<<>>, resp.final, Error("failed to parse search results HTML"))
    ELSE LET x == ExtractFrom(resp.page, 1, resp.final) IN
         IF Len(x.parseErrors) > 0 /\ Len(x.results) = 0
           THEN SearchOutput(x.results, resp.final,
                             [kind |-> "errors during result parsing",
                              count |-> Len(x.parseErrors)])
           ELSE SearchOutput(x.results, resp.final, NilError)
\* ui_helpers.go:584-707   SearchZLibrary from the return of MakeRequest on
SearchZLibrary_Result(resp) ==
    IF resp.err THEN SearchOutput(<<>>, "search", Error("search request failed"))
    ELSE IF resp.status # 200
      THEN SearchOutput(<<>>, resp.final, Error("search failed with status"))
    ELSE IF ~resp.parses
      THEN SearchOutput(<<>>, resp.final, Error("failed to parse search results HTML"))
    ELSE LET x == ExtractFrom(resp.page, 1, resp.final) IN
         IF Len(x.parseErrors) > 0
           THEN SearchOutput(x.results, resp.final,
                             [kind |-> "errors during result parsing",
                              count |-> Len(x.parseErrors)])
           ELSE SearchOutput(x.results, resp.final, NilError)

NoResponse ==
    [err |-> TRUE, final |-> "search", status |-> 0, parses |-> FALSE, page |-> <<>>]

InitSearch ==
    /\ srPc = "idle"
    /\ srQuery = <<>>
    /\ srRefBefore = Whole(BaseURL)
    /\ srRequests = <<>>
    /\ srResp = NoResponse
    /\ srOut = SearchOutput(<<>>, "", NilError)

\* ui_helpers.go:567   if query == ""
SearchZLibrary_IsEmpty(query) == query = <<>>

\* ui_helpers.go:566-584   SearchZLibrary(query) up to its call of MakeRequest
SearchZLibrary_Request(query) ==
    /\ srPc = "idle"
    /\ srQuery' = query
    /\ srRefBefore' = lastReferrer
    /\ srResp' = NoResponse
    /\ IF SearchZLibrary_IsEmpty(query)
         THEN /\ srOut' = SearchOutput(<<>>, "", Error("search query cannot be empty"))
              /\ srRequests' = <<>>
              /\ srPc' = "returned"
         ELSE /\ srRequests' = <<SearchURL(query)>>
              /\ srPc' = "requested"
              /\ UNCHANGED srOut
    /\ UNCHANGED <<sessionVars, downloadVars, extractVars, signalVars, otherVars, uiVars>>

\* ui_helpers.go:584-707   MakeRequest returns and the page is parsed
SearchZLibrary_Response(resp) ==
    /\ srPc = "requested"
    /\ srResp' = resp
    /\ lastReferrer' = IF ~resp.err /\ ShouldUpdateReferrer(resp.status)
                         THEN Whole(resp.final) ELSE lastReferrer
    /\ callLog' = Append(callLog, LogEntry(resp.err, resp.final, resp.status))
    /\ srOut' = SearchZLibrary_Result(resp)
    /\ srPc' = "returned"
    /\ UNCHANGED <<srQuery, srRefBefore, srRequests, mrPc, mrRef, mrFinal, mrStatus, overlapped,
                   downloadVars, extractVars, signalVars, otherVars, uiVars>>


(***************************************************************************)
(* Detail extractor: GetBookDetails (app/ui_helpers.go:712-1076), the part *)
(* that finds the file format, the primary download link and the other     *)
(* formats.  Texts are sequences of characters.                             *)
(***************************************************************************)
NoText == <<>>
LowerPdf == <<"p", "d", "f">>
UpperPdf == <<"P", "D", "F">>
Epub == <<"e", "p", "u", "b">>
Mobi == <<"m", "o", "b", "i">>
OneLetter == <<"z">>
Torrent == <<"t", "o", "r", "r", "e", "n", "t">>

\* strings.ToLower and strings.EqualFold on the letters of the model
LowerChar(c) ==
    CASE c = "P" -> "p" [] c = "D" -> "d" [] c = "F" -> "f" [] OTHER -> c
ToLower(str) == [i \in 1..Len(str) |-> LowerChar(str[i])]
EqualFold(a, b) == ToLower(a) = ToLower(b)

\* client.go:119-124   PtrStr: nil for the empty string
NilStr == [set |-> FALSE, text |-> NoText]
PtrStr(str) == IF str = NoText THEN NilStr ELSE [set |-> TRUE, text |-> str]

\* the formats the regular expressions of ui_helpers.go:961 and :1000 name
KnownFormats == {Epub, LowerPdf, Mobi}

\* URL strings: nil, a resolved link (base.Parse(href).String()) whose path
\* ends in the extension ext, and "CONVERSION_NEEDED"
NilURL == [kind |-> "nil", base |-> "", href |-> 0, ext |-> NoText]
ResolvedURL(base, href) ==
    [kind |-> "resolved", base |-> base, href |-> href.id, ext |-> href.ext]
ConversionNeeded ==
    [kind |-> "CONVERSION_NEEDED", base |-> "", href |-> 0, ext |-> NoText]

\* part_001:19-22   DownloadFormat{Format, URL}
DownloadFormat(format, url) == [Format |-> format, URL |-> url]

\* an href attribute: does base.Parse resolve it, does it contain "/dl/",
\* and the extension its path ends in
Href(id, resolves, dl, ext) ==
    [id |-> id, resolves |-> resolves, dl |-> dl, ext |-> ext]

\* the "file" and "format" properties of the page (ui_helpers.go:853-860,
\* 873-875): the part of the "file" value before the first comma
PageProperties ==
    {[hasFile |-> FALSE, file |-> NoText, format |-> NoText],
     [hasFile |-> TRUE, file |-> NoText, format |-> NoText],
     [hasFile |-> TRUE, file |-> LowerPdf, format |-> NoText],
     [hasFile |-> FALSE, file |-> NoText, format |-> Epub]}

\* the first element the selector of ui_helpers.go:949 matches, if any: its
\* href, the format word of its text and the text of the span inside it
NoPrimaryLink ==
    [found |-> FALSE, href |-> Href(0, FALSE, FALSE, NoText), button |-> NoText,
     span |-> NoText]
PrimaryLinks ==
    {NoPrimaryLink,
     [found |-> TRUE, href |-> Href(9, FALSE, TRUE, NoText), button |-> NoText,
      span |-> NoText]}
    \cup {[found |-> TRUE, href |-> Href(9, TRUE, TRUE, e), button |-> NoText,
           span |-> NoText] : e \in {NoText, OneLetter, LowerPdf, Torrent}}
    \cup {[found |-> TRUE, href |-> Href(9, TRUE, TRUE, NoText), button |-> UpperPdf,
           span |-> NoText],
          [found |-> TRUE, href |-> Href(9, TRUE, TRUE, NoText), button |-> NoText,
           span |-> Epub],
          [found |-> TRUE, href |-> Href(9, TRUE, TRUE, LowerPdf), button |-> NoText,
           span |-> Epub]}

\* the links of the other-formats container (ui_helpers.go:991): the text of
\* the span inside the link and its href
AlternateLinks ==
    {[span |-> LowerPdf, href |-> Href(1, TRUE, TRUE, NoText)],
     [span |-> UpperPdf, href |-> Href(2, TRUE, TRUE, NoText)],
     [span |-> NoText, href |-> Href(3, TRUE, TRUE, Epub)],
     [span |-> Epub, href |-> Href(4, TRUE, FALSE, NoText)]}

\* the convert-to elements (ui_helpers.go:1019): the data-convert_to
\* attribute, if present, and the text of the element
ConvertItems ==
    {[hasAttr |-> TRUE, attr |-> LowerPdf, text |-> NoText],
     [hasAttr |-> TRUE, attr |-> Epub, text |-> NoText],
     [hasAttr |-> FALSE, attr |-> NoText, text |-> <<" ">> \o UpperPdf]}

DetailPage(props, primary, alternates, converts) ==
    [props |-> props, primary |-> primary, alternates |-> alternates,
     converts |-> converts]
BlankPage == DetailPage([hasFile |-> FALSE, file |-> NoText, format |-> NoText],
                        NoPrimaryLink, <<>>, <<>>)
DetailPages ==
    {DetailPage(pr, pl, al, cv) :
        pr \in PageProperties, pl \in PrimaryLinks,
        al \in UNION {[1..k -> AlternateLinks] : k \in 0..MaxAlternates},
        cv \in UNION {[1..k -> ConvertItems] : k \in 0..MaxConverts}}

\* the acquisition fields of BookDetails while the page is parsed
Acquisition(format, url, others) ==
    [FileFormat |-> format, DownloadURL |-> url, OtherFormats |-> others]

\* ui_helpers.go:853-857, 889-891   FileFormat from the "file" property, else
\* from the "format" property
PropertiesFormat(props) ==
    LET fromFile == IF props.hasFile THEN PtrStr(props.file) ELSE NilStr
    IN  IF fromFile = NilStr THEN PtrStr(props.format) ELSE fromFile

\* ui_helpers.go:961-969   the format of the button: a known format named in
\* its lower-cased text, else the text of the span inside it
ButtonFormat(link) ==
    IF ToLower(link.button) \in KnownFormats
      THEN PtrStr(ToLower(link.button))
      ELSE PtrStr(link.span)

\* ui_helpers.go:949-985   the primary download link
PrimaryDownload(acq, link, base) ==
    IF link.found /\ link.href.resolves
      THEN Acquisition(IF ~acq.FileFormat.set \/ acq.FileFormat.text = NoText
                         THEN ButtonFormat(link) ELSE acq.FileFormat,
                       ResolvedURL(base, link.href), acq.OtherFormats)
      ELSE acq

\* ui_helpers.go:993-1005   the format of one link of the container
AlternateFormat(link) ==
    IF link.span # NoText THEN link.span
    ELSE IF link.href.ext \in KnownFormats THEN link.href.ext
    ELSE NoText

\* ui_helpers.go:991-1016   the container pass, link by link
RECURSIVE CollectAlternates(_, _, _)
CollectAlternates(links, k, base) ==
    IF k = 0 THEN <<>>
    ELSE LET before == CollectAlternates(links, k - 1, base)
             link == links[k]
         IN  IF AlternateFormat(link) # NoText /\ link.href.dl /\ link.href.resolves
               THEN Append(before, DownloadFormat(AlternateFormat(link),
                                                  ResolvedURL(base, link.href)))
               ELSE before

\* ui_helpers.go:1020-1024   the format a convert-to element names
ConvertTo(item) == IF item.hasAttr THEN item.attr ELSE TrimSpace(item.text)

\* ui_helpers.go:1025-1037   append the format unless one equal to it,
\* ignoring case, is in the list
AppendConversion(formats, convertTo) ==
    IF convertTo # NoText
       /\ ~\E i \in 1..Len(formats) : EqualFold(formats[i].Format, convertTo)
      THEN Append(formats, DownloadFormat(convertTo, ConversionNeeded))
      ELSE formats

\* ui_helpers.go:1019-1038   the convert-to pass, element by element
RECURSIVE CollectConversions(_, _, _)
CollectConversions(formats, items, k) ==
    IF k = 0 THEN formats
    ELSE AppendConversion(CollectConversions(formats, items, k - 1),
                          ConvertTo(items[k]))

\* ui_helpers.go:1042-1053 without the test of the first format's URL
PromoteFirst_AnyURL(acq) ==
    IF acq.DownloadURL = NilURL /\ Len(acq.OtherFormats) > 0
      THEN Acquisition(IF acq.FileFormat = NilStr
                         THEN PtrStr(acq.OtherFormats[1].Format)
                         ELSE acq.FileFormat,
                       acq.OtherFormats[1].URL, Tail(acq.OtherFormats))
      ELSE acq
\* ui_helpers.go:1042-1053 without line 1051: the promoted format stays in
\* the list
PromoteFirst_KeepsList(acq) ==
    IF acq.DownloadURL = NilURL /\ Len(acq.OtherFormats) > 0
       /\ acq.OtherFormats[1].URL # ConversionNeeded
      THEN Acquisition(IF acq.FileFormat = NilStr
                         THEN PtrStr(acq.OtherFormats[1].Format)
                         ELSE acq.FileFormat,
                       acq.OtherFormats[1].URL, acq.OtherFormats)
      ELSE acq
\* ui_helpers.go:1042-1053   without a primary link the first of the other
\* formats becomes the primary one, unless it needs a conversion
PromoteFirst(acq) ==
    IF acq.DownloadURL = NilURL /\ Len(acq.OtherFormats) > 0
       /\ acq.OtherFormats[1].URL # ConversionNeeded
      THEN Acquisition(IF acq.FileFormat = NilStr
                         THEN PtrStr(acq.OtherFormats[1].Format)
                         ELSE acq.FileFormat,
                       acq.OtherFormats[1].URL, Tail(acq.OtherFormats))
      ELSE acq

\* ui_helpers.go:1061 with a lower edge that is too high
PlausibleExt_TooStrict(ext) == Len(ext) > 3 /\ Len(ext) < 6
\* ui_helpers.go:1061   len(ext) > 1 && len(ext) < 6
PlausibleExt(ext) == Len(ext) > 1 /\ Len(ext) < 6

\* ui_helpers.go:1055-1068   a missing format is guessed from the extension
\* of the download URL's path
GuessFormat(acq) ==
    IF acq.DownloadURL.kind = "resolved"
       /\ (~acq.FileFormat.set \/ acq.FileFormat.text = NoText)
       /\ PlausibleExt(acq.DownloadURL.ext)
      THEN Acquisition(PtrStr(acq.DownloadURL.ext), acq.DownloadURL,
                       acq.OtherFormats)
      ELSE acq

\* ui_helpers.go:853-1038 with the conversion links collected before the
\* links of the other-formats container
BeforeFinalChecks_ConversionsFirst(page, base) ==
    LET primary == PrimaryDownload(
                     Acquisition(PropertiesFormat(page.props), NilURL, <<>>),
                     page.primary, base)
        others == CollectConversions(<<>>, page.converts, Len(page.converts))
                  \o CollectAlternates(page.alternates, Len(page.alternates), base)
    IN  Acquisition(primary.FileFormat, primary.DownloadURL, others)
\* ui_helpers.go:853-1038   the fields before the final checks
BeforeFinalChecks(page, base) ==
    LET primary == PrimaryDownload(
                     Acquisition(PropertiesFormat(page.props), NilURL, <<>>),
                     page.primary, base)
        others == CollectConversions(
                     CollectAlternates(page.alternates, Len(page.alternates), base),
                     page.converts, Len(page.converts))
    IN  Acquisition(primary.FileFormat, primary.DownloadURL, others)

\* ui_helpers.go:853-1073   the acquisition fields GetBookDetails returns
ExtractAcquisition(page, base) ==
    GuessFormat(PromoteFirst(BeforeFinalChecks(page, base)))

(***************************************************************************)
(* GUI layer (main.go): performSearch, result selection, detail fetch      *)
(***************************************************************************)
\* part_001:25-50   BookDetails: URL, CoverURL, FileFormat, DownloadURL and
\* OtherFormats; NilBook is the nil *BookDetails
NilBook ==
    [URL |-> "nil", CoverURL |-> "nil", FileFormat |-> NilStr,
     DownloadURL |-> NilURL, OtherFormats |-> <<>>]
BookDetails(url, cover, acq) ==
    [URL |-> url, CoverURL |-> cover, FileFormat |-> acq.FileFormat,
     DownloadURL |-> acq.DownloadURL, OtherFormats |-> acq.OtherFormats]
DetailOutput(details, finalURL, err) ==
    [details |-> details, finalURL |-> finalURL, err |-> err]
Fetches == 1..MaxFetches

\* main.go:73-80   the state main() builds
InitUI ==
    /\ psPc = "idle"
    /\ psQuery = <<>>
    /\ isSearching = FALSE
    /\ searchResults = <<>>
    /\ searchResultErr = NilError
    /\ statusText = "Enter search query and press Search or Enter."
    /\ selectedResultIdx = -1
    /\ selectedBook = NilBook
    /\ selectedBookErr = "nil"
    /\ selectedBookURL = ""
    /\ isFetchingDetails = FALSE
    /\ coverFetches = {}
    /\ fdPc = [t \in Fetches |-> "unused"]
    /\ fdURL = [t \in Fetches |-> ""]
    /\ fdOut = [t \in Fetches |-> DetailOutput(NilBook, "", "nil")]
    /\ clickLog = <<>>

\* main.go:502-520   performSearch(query) up to its call of SearchZLibrary
PerformSearch_Begin(query) ==
    /\ psPc = "idle" /\ srPc = "idle"
    /\ IF TrimSpace(query) = <<>>
         THEN /\ statusText' = "Please enter a search query."
              /\ UNCHANGED <<uiSearchVars, uiDetailVars>>
         ELSE /\ psQuery' = TrimSpace(query)
              /\ psPc' = "calling"
              /\ isSearching' = TRUE
              /\ statusText' = "Searching"
              /\ searchResults' = <<>>
              /\ searchResultErr' = NilError
              /\ selectedResultIdx' = -1
              /\ selectedBook' = NilBook
              /\ selectedBookErr' = "nil"
              /\ UNCHANGED <<selectedBookURL, isFetchingDetails, coverFetches,
                             fdPc, fdURL, fdOut, clickLog>>
    /\ UNCHANGED <<sessionVars, downloadVars, extractVars, signalVars, otherVars, searchVars>>

\* main.go:523   results, finalURL, err := zlib.SearchZLibrary(trimmedQuery)
PerformSearch_Call ==
    /\ psPc = "calling"
    /\ SearchZLibrary_Request(psQuery)

\* main.go:526-540 where the results are kept only when there is no error
PerformSearch_Finish_DropsPartialResults ==
    /\ psPc = "calling" /\ srPc = "returned"
    /\ searchResults' = IF srOut.err # NilError THEN <<>> ELSE srOut.results
    /\ searchResultErr' = srOut.err
    /\ isSearching' = FALSE
    /\ statusText' = IF srOut.err # NilError THEN "Search failed"
                     ELSE IF Len(srOut.results) = 0 THEN "No results found"
                     ELSE "Found results"
    /\ psPc' = "done"
    /\ UNCHANGED <<psQuery, uiDetailVars, sessionVars, downloadVars, extractVars,
                   signalVars, otherVars, searchVars>>
\* main.go:526-540   the state update after the search returned
PerformSearch_Finish ==
    /\ psPc = "calling" /\ srPc = "returned"
    /\ searchResults' = srOut.results
    /\ searchResultErr' = srOut.err
    /\ isSearching' = FALSE
    /\ statusText' = IF srOut.err # NilError THEN "Search failed"
                     ELSE IF Len(srOut.results) = 0 THEN "No results found"
                     ELSE "Found results"
    /\ psPc' = "done"
    /\ UNCHANGED <<psQuery, uiDetailVars, sessionVars, downloadVars, extractVars, signalVars, otherVars, searchVars>>

\* a call of SearchZLibrary that does not come from performSearch
SearchZLibrary_Direct(query) ==
    /\ psPc = "idle"
    /\ SearchZLibrary_Request(query)

\* answers of a detail page request
DetailResponses ==
    {[err |-> TRUE, final |-> "u1", status |-> 0, parses |-> FALSE, cover |-> FALSE,
      page |-> BlankPage]}
    \cup {[err |-> FALSE, final |-> f, status |-> 400, parses |-> FALSE, cover |-> FALSE,
           page |-> BlankPage] : f \in {"u1", "u2"}}
    \cup {[err |-> FALSE, final |-> f, status |-> 200, parses |-> ps, cover |-> c,
           page |-> BlankPage] : f \in {"u1", "u2"}, ps \in BOOLEAN, c \in BOOLEAN}

\* ui_helpers.go:712-751,1075   GetBookDetails: nil details with an error, or
\* the details of bookURL
\* ui_helpers.go:712-1076 where a page without any download link is an error
GetBookDetails_Result_FailsWithoutLink(bookURL, resp) ==
    IF resp.err THEN DetailOutput(NilBook, bookURL, "detail page request failed")
    ELSE IF resp.status # 200
      THEN DetailOutput(NilBook, resp.final, "detail page failed with status")
    ELSE IF ~resp.parses
      THEN DetailOutput(NilBook, resp.final, "failed to parse detail page HTML")
    ELSE IF ExtractAcquisition(resp.page, resp.final).DownloadURL = NilURL
      THEN DetailOutput(NilBook, resp.final, "no download link")
    ELSE DetailOutput(BookDetails(bookURL, IF resp.cover THEN bookURL ELSE "nil",
                                  ExtractAcquisition(resp.page, resp.final)),
                      resp.final, "nil")
GetBookDetails_Result(bookURL, resp) ==
    IF resp.err THEN DetailOutput(NilBook, bookURL, "detail page request failed")
    ELSE IF resp.status # 200
      THEN DetailOutput(NilBook, resp.final, "detail page failed with status")
    ELSE IF ~resp.parses
      THEN DetailOutput(NilBook, resp.final, "failed to parse detail page HTML")
    ELSE DetailOutput(BookDetails(bookURL, IF resp.cover THEN bookURL ELSE "nil",
                                  ExtractAcquisition(resp.page, resp.final)),
                      resp.final, "nil")

\* answers of a detail page request whose page is parsed in full
ExtractResponses ==
    {[err |-> TRUE, final |-> "u1", status |-> 0, parses |-> FALSE, cover |-> FALSE,
      page |-> BlankPage]}
    \cup {[err |-> FALSE, final |-> f, status |-> st, parses |-> FALSE, cover |-> FALSE,
           page |-> BlankPage] : f \in {"u1", "u2"}, st \in Statuses}
    \cup {[err |-> FALSE, final |-> "u2", status |-> 200, parses |-> TRUE,
           cover |-> FALSE, page |-> pg] : pg \in DetailPages}

InitExtract ==
    /\ gdPc = "idle"
    /\ gdURL = ""
    /\ gdRefBefore = Whole(BaseURL)
    /\ gdResp = [err |-> TRUE, final |-> "u1", status |-> 0, parses |-> FALSE,
                 cover |-> FALSE, page |-> BlankPage]
    /\ gdOut = DetailOutput(NilBook, "", "nil")

\* ui_helpers.go:712-715   GetBookDetails(bookURL) up to its call of MakeRequest
GetBookDetails_Request(bookURL) ==
    /\ gdPc = "idle"
    /\ gdURL' = bookURL
    /\ gdRefBefore' = lastReferrer
    /\ gdPc' = "requested"
    /\ UNCHANGED <<gdResp, gdOut, sessionVars, downloadVars, searchVars, uiVars,
                   signalVars, otherVars>>

\* ui_helpers.go:715-1075   MakeRequest returns and the page is parsed
GetBookDetails_Response(resp) ==
    /\ gdPc = "requested"
    /\ gdResp' = resp
    /\ lastReferrer' = IF ~resp.err /\ ShouldUpdateReferrer(resp.status)
                         THEN Whole(resp.final) ELSE lastReferrer
    /\ callLog' = Append(callLog, LogEntry(resp.err, resp.final, resp.status))
    /\ gdOut' = GetBookDetails_Result(gdURL, resp)
    /\ gdPc' = "returned"
    /\ UNCHANGED <<gdURL, gdRefBefore, mrPc, mrRef, mrFinal, mrStatus, overlapped,
                   downloadVars, searchVars, uiVars, signalVars, otherVars>>

StartedFetches == {t \in Fetches : fdPc[t] # "unused"}

\* main.go:242-248   OnClick of row i: a new selection starts a goroutine
SelectResult(i) ==
    /\ i \in 0..(Len(searchResults) - 1)
    /\ selectedResultIdx # i
    /\ Cardinality(StartedFetches) < MaxFetches
    /\ selectedResultIdx' = i
    /\ LET t == Cardinality(StartedFetches) + 1 IN
         /\ fdPc' = [fdPc EXCEPT ![t] = "begin"]
         /\ fdURL' = [fdURL EXCEPT ![t] = searchResults[i + 1].URL]
    /\ clickLog' = Append(clickLog, i)
    /\ UNCHANGED <<uiSearchVars, statusText, selectedBook, selectedBookErr,
                   selectedBookURL, isFetchingDetails, coverFetches, fdOut,
                   sessionVars, downloadVars, extractVars, signalVars, otherVars, searchVars>>

\* main.go:545-553   fetchAndDisplayDetails: the state update before the fetch
FetchAndDisplayDetails_Begin(t) ==
    /\ fdPc[t] = "begin"
    /\ isFetchingDetails' = TRUE
    /\ selectedBook' = NilBook
    /\ selectedBookErr' = "nil"
    /\ selectedBookURL' = fdURL[t]
    /\ statusText' = "Fetching details"
    /\ fdPc' = [fdPc EXCEPT ![t] = "fetch"]
    /\ UNCHANGED <<uiSearchVars, selectedResultIdx, coverFetches, fdURL, fdOut,
                   clickLog, sessionVars, downloadVars, extractVars, signalVars, otherVars, searchVars>>

\* main.go:556   details, finalURL, err := zlib.GetBookDetails(bookURL)
FetchAndDisplayDetails_Fetch(t, resp) ==
    /\ fdPc[t] = "fetch"
    /\ fdOut' = [fdOut EXCEPT ![t] = GetBookDetails_Result(fdURL[t], resp)]
    /\ lastReferrer' = IF ~resp.err /\ ShouldUpdateReferrer(resp.status)
                         THEN Whole(resp.final) ELSE lastReferrer
    /\ callLog' = Append(callLog, LogEntry(resp.err, resp.final, resp.status))
    /\ fdPc' = [fdPc EXCEPT ![t] = "finish"]
    /\ UNCHANGED <<uiSearchVars, statusText, selectedResultIdx, selectedBook,
                   selectedBookErr, selectedBookURL, isFetchingDetails,
                   coverFetches, fdURL, clickLog, mrPc, mrRef, mrFinal, mrStatus, overlapped,
                   downloadVars, extractVars, signalVars, otherVars, searchVars>>

\* main.go:559-574   the state update after the fetch; a cover URL starts
\* go fetchAndCacheTexture
FetchAndDisplayDetails_Finish(t) ==
    /\ fdPc[t] = "finish"
    /\ isFetchingDetails' = FALSE
    /\ IF fdOut[t].err # "nil"
         THEN /\ selectedBookErr' = fdOut[t].err
              /\ statusText' = "Error fetching details"
              /\ UNCHANGED <<selectedBook, coverFetches>>
         ELSE /\ selectedBook' = fdOut[t].details
              /\ statusText' = "Details loaded."
              /\ coverFetches' =
                    IF fdOut[t].details.CoverURL # "nil"
                      THEN coverFetches \cup {fdOut[t].details.CoverURL}
                      ELSE coverFetches
              /\ UNCHANGED selectedBookErr
    /\ fdPc' = [fdPc EXCEPT ![t] = "done"]
    /\ UNCHANGED <<uiSearchVars, selectedResultIdx, selectedBookURL, fdURL, fdOut,
                   clickLog, sessionVars, downloadVars, extractVars, signalVars, otherVars, searchVars>>

\* main.go:480   updateSignal = make(chan bool, 1)
SignalCap == 1
\* the goroutines of main.go that call signalUpdate
Tasks == {"performSearch", "fetchAndDisplayDetails", "startActualDownload"}

InitSignal ==
    /\ updateSignal = 0
    /\ taskPc = [t \in Tasks |-> "running"]
    /\ changes = 0
    /\ shown = 0
    /\ signalsSinceDrain = 0

\* main.go:484-487 on a channel made without a buffer: with no receiver
\* waiting the send is never taken
TrySend_Unbuffered(buffered) == buffered
\* main.go:484-487   select { case updateSignal <- true: default: }
TrySend(buffered) == IF buffered < SignalCap THEN buffered + 1 ELSE buffered

\* a background task changes the state the window shows (main.go:517-520,
\* 526-539, 547-552, 559-573, 795-807, 812-823); signalUpdate() follows
Task_ChangeState(t) ==
    /\ taskPc[t] = "running"
    /\ changes < MaxChanges
    /\ changes' = changes + 1
    /\ taskPc' = [taskPc EXCEPT ![t] = "signal"]
    /\ UNCHANGED <<updateSignal, shown, signalsSinceDrain, sessionVars,
                   downloadVars, searchVars, uiVars, extractVars, otherVars>>

\* main.go:483-488   signalUpdate()
SignalUpdate(t) ==
    /\ taskPc[t] = "signal"
    /\ updateSignal' = TrySend(updateSignal)
    /\ signalsSinceDrain' = signalsSinceDrain + 1
    /\ taskPc' = [taskPc EXCEPT ![t] = "running"]
    /\ UNCHANGED <<changes, shown, sessionVars, downloadVars, searchVars, uiVars,
                   extractVars, otherVars>>

\* main.go:89-134, 491-498   one frame: loop() calls handleAsyncUpdates(),
\* which takes a buffered signal if there is one, and the layout is built
\* from the current state
Loop ==
    /\ IF updateSignal > 0
         THEN /\ updateSignal' = updateSignal - 1
              /\ signalsSinceDrain' = 0
         ELSE UNCHANGED <<updateSignal, signalsSinceDrain>>
    /\ shown' = changes
    /\ UNCHANGED <<taskPc, changes, sessionVars, downloadVars, searchVars, uiVars,
                   extractVars, otherVars>>

(***************************************************************************)
(* Image cache: main.go buildThumbnailImage, fetchAndCacheTexture           *)
(***************************************************************************)
CoverURLs == {"c1", "c2"}
UIThread == 0
TextureFetches == 1..MaxTextureFetches
NoTexture == 0
\* main.go:627   the texture the goroutine t creates
Texture(t) == t

\* main.go:75   imageCache: make(map[string]*giu.Texture)
InitCache ==
    /\ imageCache = [u \in CoverURLs |-> NoTexture]
    /\ cacheReaders = {}
    /\ cacheWriters = {}
    /\ icPc = [p \in {UIThread} \cup TextureFetches |->
                  IF p = UIThread THEN "idle" ELSE "unused"]
    /\ icURL = [p \in {UIThread} \cup TextureFetches |-> ""]
    /\ icResult = [p \in TextureFetches |-> "none"]
    /\ icWrites = <<>>

\* main.go:264, 579   cacheMutex.RLock(): granted unless a writer holds it
CanRLock == cacheWriters = {}
\* main.go:647 with a lock that does not wait for the readers to leave
CanLock_IgnoresReaders == cacheWriters = {}
\* main.go:647   cacheMutex.Lock(): granted when nobody holds the mutex
CanLock == cacheWriters = {} /\ cacheReaders = {}

\* what MakeRequest and the decoding of the body can yield for an image
ImageResponses ==
    {[err |-> TRUE,  status |-> 0,   image |-> FALSE],
     [err |-> FALSE, status |-> 400, image |-> FALSE],
     [err |-> FALSE, status |-> 200, image |-> FALSE],
     [err |-> FALSE, status |-> 200, image |-> TRUE]}

\* main.go:607-634   fetchErr != nil: request error, status other than 200,
\* unreadable or empty body, undecodable image, texture not created
FetchFailed(resp) == resp.err \/ resp.status # 200 \/ ~resp.image

\* main.go:259-266   a frame draws a result row: buildThumbnailImage takes
\* the read lock (a frame is followed while a goroutine can still start)
BuildThumbnailImage_RLock(url) ==
    /\ icPc[UIThread] = "idle"
    /\ \E t \in TextureFetches : icPc[t] = "unused"
    /\ CanRLock
    /\ cacheReaders' = cacheReaders \cup {UIThread}
    /\ icPc' = [icPc EXCEPT ![UIThread] = "reading"]
    /\ icURL' = [icURL EXCEPT ![UIThread] = url]
    /\ UNCHANGED <<imageCache, cacheWriters, icResult, icWrites, sessionVars,
                   outsideCache>>

\* main.go:265-276   the lookup, RUnlock, and go fetchAndCacheTexture(url)
\* when the URL is not in the map
BuildThumbnailImage_Lookup ==
    /\ icPc[UIThread] = "reading"
    /\ cacheReaders' = cacheReaders \ {UIThread}
    /\ IF imageCache[icURL[UIThread]] # NoTexture
         THEN /\ icPc' = [icPc EXCEPT ![UIThread] = "idle"]
              /\ UNCHANGED icURL
         ELSE LET t == CHOOSE f \in TextureFetches :
                          /\ icPc[f] = "unused"
                          /\ \A g \in TextureFetches : icPc[g] = "unused" => f <= g
              IN  /\ icPc' = [icPc EXCEPT ![UIThread] = "idle", ![t] = "check"]
                  /\ icURL' = [icURL EXCEPT ![t] = icURL[UIThread]]
    /\ UNCHANGED <<imageCache, cacheWriters, icResult, icWrites, sessionVars,
                   outsideCache>>

\* main.go:579   fetchAndCacheTexture takes the read lock
Fetch_RLock(t) ==
    /\ icPc[t] = "check"
    /\ CanRLock
    /\ cacheReaders' = cacheReaders \cup {t}
    /\ icPc' = [icPc EXCEPT ![t] = "reading"]
    /\ UNCHANGED <<imageCache, cacheWriters, icURL, icResult, icWrites,
                   sessionVars, outsideCache>>

\* main.go:580-591   the lookup and RUnlock; return when already cached
Fetch_Lookup(t) ==
    /\ icPc[t] = "reading"
    /\ cacheReaders' = cacheReaders \ {t}
    /\ IF imageCache[icURL[t]] # NoTexture
         THEN /\ icPc' = [icPc EXCEPT ![t] = "done"]
              /\ icResult' = [icResult EXCEPT ![t] = "cached"]
         ELSE /\ icPc' = [icPc EXCEPT ![t] = "request"]
              /\ UNCHANGED icResult
    /\ UNCHANGED <<imageCache, cacheWriters, icURL, icWrites, sessionVars,
                   outsideCache>>

\* main.go:602-645   MakeRequest(imageURL), the body is read and decoded and
\* the texture is created; errors are not cached
Fetch_Request(t, resp) ==
    /\ icPc[t] = "request"
    /\ lastReferrer' = IF ~resp.err /\ ShouldUpdateReferrer(resp.status)
                         THEN Whole(icURL[t]) ELSE lastReferrer
    /\ callLog' = Append(callLog, LogEntry(resp.err, icURL[t], resp.status))
    /\ IF FetchFailed(resp)
         THEN /\ icPc' = [icPc EXCEPT ![t] = "done"]
              /\ icResult' = [icResult EXCEPT ![t] = "failed"]
         ELSE /\ icPc' = [icPc EXCEPT ![t] = "lock"]
              /\ icResult' = [icResult EXCEPT ![t] = "ok"]
    /\ UNCHANGED <<imageCache, cacheReaders, cacheWriters, icURL, icWrites,
                   mrPc, mrRef, mrFinal, mrStatus, overlapped, outsideCache>>

\* main.go:647   cacheMutex.Lock()
Fetch_Lock(t) ==
    /\ icPc[t] = "lock"
    /\ CanLock
    /\ cacheWriters' = cacheWriters \cup {t}
    /\ icPc' = [icPc EXCEPT ![t] = "writing"]
    /\ UNCHANGED <<imageCache, cacheReaders, icURL, icResult, icWrites,
                   sessionVars, outsideCache>>

\* main.go:648   gApp.imageCache[imageURL] = tex
Fetch_Write(t) ==
    /\ icPc[t] = "writing"
    /\ imageCache' = [imageCache EXCEPT ![icURL[t]] = Texture(t)]
    /\ icWrites' = Append(icWrites, [by |-> t, url |-> icURL[t]])
    /\ icPc' = [icPc EXCEPT ![t] = "written"]
    /\ UNCHANGED <<cacheReaders, cacheWriters, icURL, icResult, sessionVars,
                   outsideCache>>

\* main.go:649   cacheMutex.Unlock()
Fetch_Unlock(t) ==
    /\ icPc[t] = "written"
    /\ cacheWriters' = cacheWriters \ {t}
    /\ icPc' = [icPc EXCEPT ![t] = "done"]
    /\ UNCHANGED <<imageCache, cacheReaders, icURL, icResult, icWrites,
                   sessionVars, outsideCache>>

(***************************************************************************)
(* utils.SanitizeFilename (client.go:97-116); a text is a sequence of      *)
(* one-byte characters                                                     *)
(***************************************************************************)
\* client.go:99   [\\/*?:"<>|]
IllegalChars == {"\\", "/", "*", "?", ":", "\"", "<", ">", "|"}
\* client.go:101   \s
IsWhitespace(c) == c \in {" ", "\t", "\n", "\r"}
\* client.go:113
Placeholder ==
    <<"d", "o", "w", "n", "l", "o", "a", "d", "e", "d", "_", "b", "o", "o", "k">>

\* client.go:99   the illegal characters are removed
RemoveIllegal(str) == SelectSeq(str, LAMBDA c : c \notin IllegalChars)
\* client.go:100   a run of two or more dots becomes one dot: a dot that
\* follows a dot goes
CollapseDots(str) ==
    LET kept == SelectSeq([i \in 1..Len(str) |-> i],
                          LAMBDA i : ~(str[i] = "." /\ i > 1 /\ str[i - 1] = "."))
    IN  [j \in 1..Len(kept) |-> str[kept[j]]]
\* client.go:101   a run of two or more whitespace characters becomes one
\* space; a single whitespace character stays what it is
CollapseWhitespace(str) ==
    LET after(i) == i > 1 /\ IsWhitespace(str[i - 1])
        before(i) == i < Len(str) /\ IsWhitespace(str[i + 1])
        kept == SelectSeq([i \in 1..Len(str) |-> i],
                          LAMBDA i : ~(IsWhitespace(str[i]) /\ after(i)))
    IN  [j \in 1..Len(kept) |->
            IF IsWhitespace(str[kept[j]]) /\ before(kept[j]) THEN " "
            ELSE str[kept[j]]]
\* client.go:102   strings.Trim(sanitized, ". ")
TrimDotsAndSpaces(str) ==
    LET inner == {i \in 1..Len(str) : str[i] \notin {".", " "}}
    IN  IF inner = {} THEN <<>>
        ELSE SubSeq(str, CHOOSE i \in inner : \A k \in inner : i <= k,
                         CHOOSE i \in inner : \A k \in inner : i >= k)
\* client.go:105   strings.LastIndex(sanitized[:maxLen], " "), counted from 0
LastSpace(str) ==
    LET spaces == {i \in 1..maxLen : str[i] = " "}
    IN  IF spaces = {} THEN -1
        ELSE (CHOOSE i \in spaces : \A k \in spaces : i >= k) - 1
\* client.go:104-111   a text longer than maxLen is cut at its last space
\* among the first maxLen characters, or at maxLen
Truncate(str) ==
    IF Len(str) > maxLen
      THEN IF LastSpace(str) # -1 THEN SubSeq(str, 1, LastSpace(str))
                                  ELSE SubSeq(str, 1, maxLen)
      ELSE str
\* client.go:98-116
SanitizeFilename(filename) ==
    LET sanitized == Truncate(TrimDotsAndSpaces(CollapseWhitespace(
                        CollapseDots(RemoveIllegal(filename)))))
    IN  IF sanitized = <<>> THEN Placeholder ELSE sanitized

\* the file names tried: every short text, and every short text behind a
\* filling that brings it to the cutting length
NameChars == {"a", ".", " ", "\t", "/"}
ShortNames == UNION {[1..k -> NameChars] : k \in 0..MaxNameLen}
Filling(k, spaced) == [i \in 1..k |-> IF spaced /\ i = 3 THEN " " ELSE "a"]
LongNames ==
    {Filling(k, sp) \o tail :
        k \in (maxLen - 2)..maxLen, sp \in BOOLEAN, tail \in ShortNames}
FileNames == ShortNames \cup LongNames

InitSanitize ==
    /\ sfPc = "idle"
    /\ sfIn = <<>>
    /\ sfOut = <<>>

\* ui_handlers.go:183, main.go:683   utils.SanitizeFilename(baseFilename)
SanitizeFilename_Call(filename) ==
    /\ sfPc = "idle"
    /\ sfIn' = filename
    /\ sfOut' = SanitizeFilename(filename)
    /\ sfPc' = "returned"
    /\ UNCHANGED <<sessionVars, downloadVars, searchVars, uiVars, extractVars,
                   signalVars, cacheVars, launchVars>>

(***************************************************************************)
(* How main.go starts its background tasks: loop(), performSearch,         *)
(* performDownload, startActualDownload                                    *)
(***************************************************************************)
SearchTasks == 1..MaxSearchTasks
DownloadTasks == 1..MaxDownloadTasks

\* main.go:73-80   the state main() builds
InitLaunch ==
    /\ searchInitiated = FALSE
    /\ showErrorPopup = FALSE
    /\ spPc = [t \in SearchTasks |-> "unused"]
    /\ spQuery = [t \in SearchTasks |-> <<>>]
    /\ dtPc = [t \in DownloadTasks |-> "unused"]

\* the lowest task not started yet
FirstUnused(pc) ==
    CHOOSE t \in DOMAIN pc :
       pc[t] = "unused" /\ \A u \in DOMAIN pc : pc[u] = "unused" => t <= u

\* main.go:98   the Search button, disabled while isSearching, is clicked
ClickSearch ==
    /\ ~isSearching
    /\ searchInitiated' = TRUE
    /\ UNCHANGED <<showErrorPopup, spPc, spQuery, dtPc, sessionVars, downloadVars,
                   searchVars, uiVars, extractVars, signalVars, cacheVars,
                   sanitizeVars>>

\* main.go:101-105   Enter is pressed in the search input
PressEnter ==
    /\ ~isSearching
    /\ searchInitiated' = TRUE
    /\ UNCHANGED <<showErrorPopup, spPc, spQuery, dtPc, sessionVars, downloadVars,
                   searchVars, uiVars, extractVars, signalVars, cacheVars,
                   sanitizeVars>>

\* main.go:129-133   the end of loop(): go performSearch(gApp.searchQuery)
Loop_StartSearch(query) ==
    /\ searchInitiated /\ ~isSearching
    /\ \E t \in SearchTasks : spPc[t] = "unused"
    /\ searchInitiated' = FALSE
    /\ spPc' = [spPc EXCEPT ![FirstUnused(spPc)] = "launched"]
    /\ spQuery' = [spQuery EXCEPT ![FirstUnused(spPc)] = query]
    /\ UNCHANGED <<showErrorPopup, dtPc, sessionVars, downloadVars, searchVars,
                   uiVars, extractVars, signalVars, cacheVars, sanitizeVars>>

\* main.go:502-520   the goroutine runs performSearch up to its call of
\* SearchZLibrary
SearchTask_Begin(t) ==
    /\ spPc[t] = "launched"
    /\ IF TrimSpace(spQuery[t]) = <<>>
         THEN /\ statusText' = "Please enter a search query."
              /\ spPc' = [spPc EXCEPT ![t] = "done"]
              /\ UNCHANGED <<uiSearchVars, uiDetailVars>>
         ELSE /\ isSearching' = TRUE
              /\ statusText' = "Searching"
              /\ searchResults' = <<>>
              /\ searchResultErr' = NilError
              /\ selectedResultIdx' = -1
              /\ selectedBook' = NilBook
              /\ selectedBookErr' = "nil"
              /\ spPc' = [spPc EXCEPT ![t] = "searching"]
              /\ UNCHANGED <<psPc, psQuery, selectedBookURL, isFetchingDetails,
                             coverFetches, fdPc, fdURL, fdOut, clickLog>>
    /\ UNCHANGED <<searchInitiated, showErrorPopup, spQuery, dtPc, sessionVars,
                   downloadVars, searchVars, extractVars, signalVars, cacheVars,
                   sanitizeVars>>

\* the answers followed for the searches of concurrent tasks
OneCardResponses == {r \in SearchResponses : Len(r.page) <= 1}

\* main.go:523-540   SearchZLibrary returns and the state is updated
SearchTask_Finish(t, resp) ==
    /\ spPc[t] = "searching"
    /\ lastReferrer' = IF ~resp.err /\ ShouldUpdateReferrer(resp.status)
                         THEN Whole(resp.final) ELSE lastReferrer
    /\ callLog' = Append(callLog, LogEntry(resp.err, resp.final, resp.status))
    /\ LET out == SearchZLibrary_Result(resp) IN
         /\ searchResults' = out.results
         /\ searchResultErr' = out.err
         /\ statusText' = IF out.err # NilError THEN "Search failed"
                          ELSE IF Len(out.results) = 0 THEN "No results found"
                          ELSE "Found results"
         /\ showErrorPopup' = (showErrorPopup \/ out.err # NilError)
    /\ isSearching' = FALSE
    /\ spPc' = [spPc EXCEPT ![t] = "done"]
    /\ UNCHANGED <<searchInitiated, spQuery, dtPc, psPc, psQuery, uiDetailVars,
                   mrPc, mrRef, mrFinal, mrStatus, overlapped, downloadVars, searchVars,
                   extractVars, signalVars, cacheVars, sanitizeVars>>

\* main.go:453-459   canDownload()
CanDownload ==
    /\ ~isDownloading
    /\ selectedBook # NilBook
    /\ selectedBook.DownloadURL.kind = "resolved"

\* main.go:223, 661-715   the Download button, disabled unless canDownload(),
\* is clicked: performDownload prepares the path and starts the goroutine
PerformDownload(prepared) ==
    /\ CanDownload
    /\ \E t \in DownloadTasks : dtPc[t] = "unused"
    /\ IF prepared
         THEN /\ dtPc' = [dtPc EXCEPT ![FirstUnused(dtPc)] = "launched"]
              /\ UNCHANGED showErrorPopup
         ELSE /\ showErrorPopup' = TRUE
              /\ UNCHANGED dtPc
    /\ UNCHANGED <<searchInitiated, spPc, spQuery, sessionVars, downloadVars,
                   searchVars, uiVars, extractVars, signalVars, cacheVars,
                   sanitizeVars>>

\* main.go:717-723   the goroutine runs startActualDownload up to the
\* creation of the channel
DownloadTask_Begin(t) ==
    /\ dtPc[t] = "launched"
    /\ isDownloading' = TRUE
    /\ statusText' = "Starting download"
    /\ dtPc' = [dtPc EXCEPT ![t] = "running"]
    /\ UNCHANGED <<searchInitiated, showErrorPopup, spPc, spQuery, sessionVars,
                   producerVars, chanVars, fileVars, cPc, cCount, recvLog,
                   progressShown, lastError, dlOutcome, searchVars,
                   uiSearchVars, uiDetailVars, extractVars, signalVars,
                   cacheVars, sanitizeVars>>

\* main.go:726-824   the download ran: the final state update
DownloadTask_Finish(t, failed) ==
    /\ dtPc[t] = "running"
    /\ isDownloading' = FALSE
    /\ statusText' = IF failed THEN "Download failed" ELSE "Download complete"
    /\ showErrorPopup' = (showErrorPopup \/ failed)
    /\ dtPc' = [dtPc EXCEPT ![t] = "done"]
    /\ UNCHANGED <<searchInitiated, spPc, spQuery, sessionVars, producerVars,
                   chanVars, fileVars, cPc, cCount, recvLog, progressShown,
                   lastError, dlOutcome, searchVars, uiSearchVars, uiDetailVars,
                   extractVars, signalVars, cacheVars, sanitizeVars>>

\* answers of a detail page request that decide whether a download can start
DownloadablePages ==
    {BlankPage,
     DetailPage([hasFile |-> TRUE, file |-> LowerPdf, format |-> NoText],
                [found |-> TRUE, href |-> Href(9, TRUE, TRUE, LowerPdf),
                 button |-> NoText, span |-> NoText], <<>>, <<>>),
     DetailPage([hasFile |-> FALSE, file |-> NoText, format |-> NoText],
                NoPrimaryLink, <<>>,
                <<[hasAttr |-> TRUE, attr |-> LowerPdf, text |-> NoText]>>)}
DownloadableResponses ==
    {[err |-> TRUE, final |-> "u1", status |-> 0, parses |-> FALSE, cover |-> FALSE,
      page |-> BlankPage]}
    \cup {[err |-> FALSE, final |-> "u1", status |-> 200, parses |-> TRUE,
           cover |-> FALSE, page |-> pg] : pg \in DownloadablePages}

InitOther == InitCache /\ InitSanitize /\ InitLaunch

Init == InitSession /\ InitDownload /\ InitSearch /\ InitUI /\ InitExtract
        /\ InitSignal /\ InitOther

\* concurrent callers of MakeRequest
NextSession == \E p \in Callers : MakeRequest(p)
SpecSession == Init /\ [][NextSession]_vars

\* one caller at a time: calls issued in sequence
NextSequential == MakeRequest(1)
SpecSequential == Init /\ [][NextSequential]_vars

\* one download: producer goroutine and consumer
SpecDownload == Init /\ [][NextDownload]_vars

\* the steps of the producer goroutine and of the consumer
ProducerStep ==
    \/ dlPc = "request" /\ \E r \in DownloadResponses : Download_Request(r)
    \/ Download_Send
    \/ \E ok \in BOOLEAN : Download_Create(ok)
    \/ \E nr \in ChunkSizes, er \in {"nil", "EOF", "err"} : Download_Read(nr, er)
    \/ \E nw \in ChunkSizes : ProgressWriter_Write(nw)
    \/ \E removed \in BOOLEAN : Download_Remove(removed)
    \/ Download_Close
ConsumerStep ==
    \/ Consumer_Receive
    \/ Consumer_ChannelClosed
    \/ Consumer_Final
\* one download whose two goroutines are scheduled again and again
SpecDownloadFair ==
    Init /\ [][NextDownload]_vars /\ WF_vars(ProducerStep) /\ WF_vars(ConsumerStep)

\* the session may already have navigated when a search starts
InitNavigated ==
    /\ InitDownload /\ InitSearch /\ InitUI /\ InitExtract /\ InitSignal
    /\ InitOther
    /\ mrPc = [p \in Callers |-> "idle"]
    /\ mrRef = [p \in Callers |-> Whole(BaseURL)]
    /\ mrFinal = [p \in Callers |-> BaseURL]
    /\ mrStatus = [p \in Callers |-> 0]
    /\ \E u \in URLs :
          /\ lastReferrer = Whole(u)
          /\ callLog = IF u = BaseURL THEN <<>> ELSE <<LogEntry(FALSE, u, 200)>>
    /\ overlapped = FALSE

\* one search, called directly or through performSearch
NextSearch ==
    \/ \E q \in Queries : SearchZLibrary_Direct(q)
    \/ \E q \in Queries : PerformSearch_Begin(q)
    \/ PerformSearch_Call
    \/ srPc = "requested" /\ \E r \in SearchResponses : SearchZLibrary_Response(r)
    \/ PerformSearch_Finish
SpecSearch == InitNavigated /\ [][NextSearch]_vars

\* the steps of the performSearch goroutine once it is searching; the answer
\* arrives because the client's Timeout (client.go:29) bounds the request
SearchStep ==
    \/ PerformSearch_Call
    \/ srPc = "requested" /\ \E r \in SearchResponses : SearchZLibrary_Response(r)
    \/ PerformSearch_Finish
\* one search through performSearch, its goroutine scheduled again and again
NextPerformSearch ==
    \/ \E q \in Queries : PerformSearch_Begin(q)
    \/ SearchStep
SpecSearchFair ==
    InitNavigated /\ [][NextPerformSearch]_vars /\ WF_vars(SearchStep)

\* the result list of a search is shown and rows are selected
InitAfterSearch ==
    /\ InitSession /\ InitDownload /\ InitSearch /\ InitExtract /\ InitSignal
    /\ InitOther
    /\ psPc = "done"
    /\ psQuery = <<"a">>
    /\ isSearching = FALSE
    /\ searchResults = <<BookSearchResult(Text("slot", 0), "u1", NoID),
                         BookSearchResult(Text("slot", 1), "u2", NoID)>>
    /\ searchResultErr = NilError
    /\ statusText = "Found results"
    /\ selectedResultIdx = -1
    /\ selectedBook = NilBook
    /\ selectedBookErr = "nil"
    /\ selectedBookURL = ""
    /\ isFetchingDetails = FALSE
    /\ coverFetches = {}
    /\ fdPc = [t \in Fetches |-> "unused"]
    /\ fdURL = [t \in Fetches |-> ""]
    /\ fdOut = [t \in Fetches |-> DetailOutput(NilBook, "", "nil")]
    /\ clickLog = <<>>

NextDetails ==
    \/ \E i \in 0..1 : SelectResult(i)
    \/ \E t \in Fetches : FetchAndDisplayDetails_Begin(t)
    \/ \E t \in Fetches, r \in DetailResponses : FetchAndDisplayDetails_Fetch(t, r)
    \/ \E t \in Fetches : FetchAndDisplayDetails_Finish(t)
SpecDetails == InitAfterSearch /\ [][NextDetails]_vars

\* one call of GetBookDetails on a detail page
NextExtract ==
    \/ GetBookDetails_Request("u1")
    \/ gdPc = "requested" /\ \E r \in ExtractResponses : GetBookDetails_Response(r)
SpecExtract == Init /\ [][NextExtract]_vars

\* background tasks signalling the foreground loop
NextSignal ==
    \/ \E t \in Tasks : Task_ChangeState(t)
    \/ \E t \in Tasks : SignalUpdate(t)
    \/ Loop
SpecSignal == Init /\ [][NextSignal]_vars

\* frames drawing thumbnails and the goroutines they start
NextCache ==
    \/ \E u \in CoverURLs : BuildThumbnailImage_RLock(u)
    \/ BuildThumbnailImage_Lookup
    \/ \E t \in TextureFetches : Fetch_RLock(t)
    \/ \E t \in TextureFetches : Fetch_Lookup(t)
    \/ \E t \in TextureFetches, r \in ImageResponses : Fetch_Request(t, r)
    \/ \E t \in TextureFetches : Fetch_Lock(t)
    \/ \E t \in TextureFetches : Fetch_Write(t)
    \/ \E t \in TextureFetches : Fetch_Unlock(t)
SpecCache == Init /\ [][NextCache]_vars

\* one call of SanitizeFilename
NextSanitize == \E name \in FileNames : SanitizeFilename_Call(name)
SpecSanitize == Init /\ [][NextSanitize]_vars

\* the search box and the goroutines loop() starts for it
NextSearchLaunch ==
    \/ ClickSearch
    \/ PressEnter
    \/ \E q \in Queries : Loop_StartSearch(q)
    \/ \E t \in SearchTasks : SearchTask_Begin(t)
    \/ \E t \in SearchTasks, r \in OneCardResponses : SearchTask_Finish(t, r)
SpecSearchLaunch == Init /\ [][NextSearchLaunch]_vars

\* rows are selected, details arrive, and the Download button is clicked
NextDownloadLaunch ==
    \/ \E i \in 0..1 : SelectResult(i)
    \/ \E t \in Fetches : FetchAndDisplayDetails_Begin(t)
    \/ \E t \in Fetches, r \in DownloadableResponses :
          FetchAndDisplayDetails_Fetch(t, r)
    \/ \E t \in Fetches : FetchAndDisplayDetails_Finish(t)
    \/ \E prepared \in BOOLEAN : PerformDownload(prepared)
    \/ \E t \in DownloadTasks : DownloadTask_Begin(t)
    \/ \E t \in DownloadTasks, failed \in BOOLEAN : DownloadTask_Finish(t, failed)
SpecDownloadLaunch == InitAfterSearch /\ [][NextDownloadLaunch]_vars

(***************************************************************************)
(* Claims about the session client.                                        *)
(***************************************************************************)
Storing(p) == mrPc[p] \in {"storePtr", "storeLen"}
Loading(p) == mrPc[p] \in {"loadPtr", "loadLen"}

\* C5: concurrent MakeRequest calls never access lastReferrer without
\* synchronisation (no call is at its store of lastReferrer while another call
\* is at a load or store of it), and every value a call has read is a URL that
\* some call wrote in full.
C5_ReferrerAccessSerialized ==
    /\ \A p \in Callers, q \in Callers :
          p # q => ~(Storing(p) /\ (Storing(q) \/ Loading(q)))
    /\ \A p \in Callers : mrPc[p] = "do" => IsWhole(mrRef[p])

\* the final URL of the most recent logged call that returned a response with
\* status in [200,400); the base URL when there is none
RECURSIVE LastNavigated(_)
LastNavigated(log) ==
    IF log = <<>> THEN BaseURL
    ELSE LET e == log[Len(log)] IN
         IF ~e.err /\ e.status \in 200..399
           THEN e.final
           ELSE LastNavigated(SubSeq(log, 1, Len(log) - 1))

\* C6: after any sequence of MakeRequest calls lastReferrer is the final URL of
\* the most recent call answered with a status in [200,400), the base URL if
\* there was none; failed calls and statuses >= 400 leave it unchanged.
C6_ReferrerIsLastNavigated ==
    mrPc[1] = "idle" => lastReferrer = Whole(LastNavigated(callLog))

\* a navigated call to u2, then a 400 answer from u1: the referrer stays u2
C6_Witness ==
    /\ mrPc[1] = "idle"
    /\ Len(callLog) = 3
    /\ callLog[2] = LogEntry(FALSE, "u2", 399)
    /\ callLog[3] = LogEntry(FALSE, "u1", 400)
    /\ lastReferrer = Whole("u2")

(***************************************************************************)
(* Claims about the streaming downloader.                                  *)
(***************************************************************************)
LastSent == sentLog[Len(sentLog)]

\* C1: the producer puts exactly one terminal event on the channel, it is the
\* last event sent before the channel is closed, and no event (those of
\* ProgressWriter.Write included) is sent after an event carrying an error.
C1_OneTerminalEventLast ==
    /\ \A i \in 1..Len(sentLog) :
          sentLog[i].ev.err # "nil" => i = Len(sentLog)
    /\ chClosed => sentLog # <<>> /\ LastSent.src = "goroutine"

\* C2: only events sent by ProgressWriter.Write are ever dropped; the terminal
\* event of the download goroutine is enqueued before the channel is closed;
\* and a consumer that has left its loop has received a terminal outcome: an
\* event carrying an error, or every event up to the final success event.
C2_TerminalEventNeverDropped ==
    /\ \A i \in 1..Len(dropLog) : dropLog[i].src = "writer"
    /\ dlPc = "done" =>
          /\ chClosed
          /\ sentLog # <<>>
          /\ LastSent = [ev |-> dlPending, src |-> "goroutine"]
    /\ cPc \in {"final", "done"} =>
          \/ lastError # "nil"
          \/ /\ chClosed
             /\ cCount = Len(sentLog)
             /\ LastSent = [ev |-> dlPending, src |-> "goroutine"]
             /\ LastSent.ev.err = "nil"

\* a chunk event was dropped on a full buffer and the consumer still saw the
\* download complete
C2_Witness ==
    /\ Len(dropLog) > 0
    /\ cPc = "done"
    /\ dlOutcome = "complete"
    /\ LastSent.ev.cur = pwCurrent

ResponseRejected ==
    /\ dlPc \notin {"idle", "request"}
    /\ dlResp.err \/ dlResp.html \/ dlResp.status # 200

\* C3: a download whose request fails, whose response is HTML or whose status
\* is not 200 emits an error event and never creates, truncates or writes the
\* destination file.
C3_RejectedResponseLeavesFile ==
    ResponseRejected =>
        /\ destFile = destFile0
        /\ ~fileOpen
        /\ dlPc \in {"close", "done"} =>
              /\ Len(sentLog) = 1
              /\ sentLog[1].ev.err # "nil"

\* an HTML page answered with status 200 over an existing file: the download
\* ended and the file is the one that was there
C3_Witness ==
    /\ dlPc = "done"
    /\ ~dlResp.err /\ dlResp.html /\ dlResp.status = 200
    /\ destFile0 = OldFile
    /\ destFile = OldFile
    /\ sentLog[1].ev.err = "html"

\* C4: when the copy fails part-way, the destination file is removed and then
\* the final error event carries the bytes written before the failure; after
\* the download ended nothing exists at the destination path.
C4_PartialFileRemoved ==
    (sentLog # <<>> /\ LastSent.ev.err = "interrupted") =>
        /\ LastSent.ev.cur = pwCurrent
        /\ destFile = NoFile


ResponseAccepted ==
    /\ dlPc \notin {"idle", "request"}
    /\ ~dlResp.err /\ dlResp.status = 200 /\ ~dlResp.html

\* C19: the byte counts of the received events never decrease, each is the
\* number of bytes the download had written to the file when the event was
\* sent, and the final success event carries the number of bytes copied.
C19_ProgressIsCumulative ==
    /\ \A j, k \in 1..Len(recvLog) : j < k => recvLog[j].cur <= recvLog[k].cur
    /\ \A k \in 1..Len(recvLog) :
          /\ recvLog[k] = sentLog[k].ev
          /\ recvLog[k].cur = sentWritten[k]
    /\ dlPc \in {"close", "done"} /\ ResponseAccepted /\ LastSent.ev.err = "nil" =>
          LastSent.ev.cur = destFile.size

\* a writer event was dropped and the consumer saw the download complete
C19_Witness ==
    /\ cPc = "done" /\ dlOutcome = "complete"
    /\ Len(dropLog) > 0
    /\ Len(recvLog) > 2
    /\ recvLog[Len(recvLog)].cur > 3

\* the last event without an error the consumer received
RECURSIVE LastProgress(_)
LastProgress(log) ==
    IF log = <<>> THEN NoEvent
    ELSE IF log[Len(log)].err = "nil" THEN log[Len(log)]
    ELSE LastProgress(SubSeq(log, 1, Len(log) - 1))

\* C20: every event of an accepted response, enqueued or dropped, carries
\* the Content-Length when it is a positive integer and -1 otherwise; the
\* consumer shows a fraction only for a positive total.
C20_TotalIsContentLengthOrUnknown ==
    LET expected == IF dlResp.clen.parses /\ dlResp.clen.value > 0
                      THEN dlResp.clen.value ELSE -1
    IN  /\ ResponseAccepted =>
              /\ \A k \in 1..Len(sentLog) : sentLog[k].ev.total = expected
              /\ \A k \in 1..Len(dropLog) : dropLog[k].ev.total = expected
        /\ progressShown = "fraction" => LastProgress(recvLog).total > 0
        /\ progressShown = "indeterminate" => LastProgress(recvLog).total <= 0

(***************************************************************************)
(* Claims about detail selection.                                          *)
(***************************************************************************)
AllFetchesFinished ==
    /\ Cardinality(StartedFetches) = Len(clickLog)
    /\ \A t \in StartedFetches : fdPc[t] = "done"

\* C7: when a second target is selected while the fetch of the first is in
\* flight, then once both fetches have finished selectedBook (and
\* selectedBookURL shown with it) belongs to the target selected last.
C7_LatestSelectionDisplayed ==
    (Len(clickLog) >= 2 /\ AllFetchesFinished) =>
        LET latest == searchResults[clickLog[Len(clickLog)] + 1].URL IN
        /\ selectedBookURL = latest
        /\ selectedBook # NilBook => selectedBook.URL = latest

(***************************************************************************)
(* Claims about search.                                                    *)
(***************************************************************************)
\* C8: search called with the empty string or with white space only returns an
\* empty-query error with no results and issues no HTTP request (no call of
\* MakeRequest, lastReferrer unchanged).
C8_BlankQueryIsRejected ==
    (srPc # "idle" /\ TrimSpace(srQuery) = <<>>) =>
        /\ srPc = "returned"
        /\ srOut.err = Error("search query cannot be empty")
        /\ srOut.results = <<>>
        /\ srRequests = <<>>
        /\ lastReferrer = srRefBefore

\* C9: for every non-empty query one call of search issues exactly one GET to
\* the search endpoint, and its q parameter is the input with leading and
\* trailing white space removed.
C9_OneGetWithTrimmedQuery ==
    (srPc = "returned" /\ srQuery # <<>>) =>
        /\ Len(srRequests) = 1
        /\ srRequests[1].path = SearchPath
        /\ QueryUnescape(srRequests[1].q) = TrimSpace(srQuery)

\* a card from which a result can be built: a z-bookcard, or failing that a
\* title link, with an href that resolves
WellFormed(card) ==
    \/ card.zb = "ok"
    \/ card.zb = "absent" /\ card.link = "ok"
WellFormedItems(page) ==
    SelectSeq([k \in 1..Len(page) |-> k], LAMBDA k : WellFormed(page[k]))

\* C10: for a 200 page with N well-formed and M malformed cards in any order,
\* search returns the N results of the well-formed cards in page order, with a
\* nil error when M = 0 and an error reporting M failures when M > 0.
C10_PartialSuccess ==
    (srPc = "returned" /\ ~srResp.err /\ srResp.status = 200 /\ srResp.parses) =>
        LET wf == WellFormedItems(srResp.page)
            M == Len(srResp.page) - Len(wf)
        IN  /\ Len(srOut.results) = Len(wf)
            /\ \A k \in 1..Len(wf) :
                  /\ srOut.results[k].URL.href.item = wf[k] - 1
                  /\ srOut.results[k].URL.base = srResp.final
            /\ M = 0 => srOut.err = NilError
            /\ M > 0 => srOut.err.kind # "nil" /\ srOut.err.count = M

\* a malformed card followed by a well-formed one: one result, one failure
C10_Witness ==
    /\ srPc = "returned"
    /\ srResp.parses
    /\ Len(srResp.page) = 2
    /\ ~WellFormed(srResp.page[1])
    /\ WellFormed(srResp.page[2])
    /\ Len(srOut.results) = 1
    /\ srOut.results[1].URL.href.item = 1
    /\ srOut.err.count = 1

(***************************************************************************)
(* Claims about the detail extractor.                                      *)
(***************************************************************************)
\* a call of GetBookDetails returned details
DetailsReturned == gdPc = "returned" /\ gdOut.err = "nil"
\* the fields of that call before the final checks of ui_helpers.go:1040
PreChecks == BeforeFinalChecks(gdResp.page, gdResp.final)
Populated(format) == format.set /\ format.text # NoText

\* C11: on a response whose status is not 200 GetBookDetails returns nil
\* details, the final URL and an error, and lastReferrer is what it was
\* before the call.
C11_NonOKHasNoEffect ==
    gdPc = "returned" /\ ~gdResp.err /\ gdResp.status # 200 =>
        /\ gdOut.details = NilBook
        /\ gdOut.finalURL = gdResp.final
        /\ gdOut.err # "nil"
        /\ lastReferrer = gdRefBefore

\* C12 as stated: whenever the returned details have a primary download URL
\* that is not the conversion sentinel, they have a non-empty primary format.
C12_PrimaryFormatPopulated ==
    DetailsReturned /\ gdOut.details.DownloadURL # NilURL
                    /\ gdOut.details.DownloadURL # ConversionNeeded =>
        Populated(gdOut.details.FileFormat)

\* C12 amended: whenever the returned details have a primary download URL
\* that is not the conversion sentinel, they have a non-empty primary format
\* unless the path of that URL has no extension of 2 to 5 characters.
C12_PrimaryFormatPopulatedOrNoExtension ==
    DetailsReturned /\ gdOut.details.DownloadURL # NilURL
                    /\ gdOut.details.DownloadURL # ConversionNeeded =>
        \/ Populated(gdOut.details.FileFormat)
        \/ Len(gdOut.details.DownloadURL.ext) \notin 2..5

\* the format was found nowhere on the page and is taken from the extension
C12_Witness ==
    /\ DetailsReturned
    /\ PreChecks.FileFormat = NilStr
    /\ gdOut.details.DownloadURL.kind = "resolved"
    /\ gdOut.details.FileFormat = PtrStr(LowerPdf)

\* C13: no two of the returned other formats have names that are equal
\* ignoring case.
C13_NoDuplicateFormats ==
    DetailsReturned =>
        \A i, j \in 1..Len(gdOut.details.OtherFormats) :
            i < j => ~EqualFold(gdOut.details.OtherFormats[i].Format,
                                gdOut.details.OtherFormats[j].Format)

\* C14: without a primary link, and with a first other format that needs a
\* conversion, the returned details have no primary download URL and the
\* other formats are the ones collected.
C14_SentinelIsNotPromoted ==
    DetailsReturned /\ PreChecks.DownloadURL = NilURL
                    /\ Len(PreChecks.OtherFormats) > 0
                    /\ PreChecks.OtherFormats[1].URL = ConversionNeeded =>
        /\ gdOut.details.DownloadURL = NilURL
        /\ gdOut.details.OtherFormats = PreChecks.OtherFormats

C14_Witness ==
    /\ DetailsReturned
    /\ PreChecks.DownloadURL = NilURL
    /\ Len(PreChecks.OtherFormats) = 2
    /\ PreChecks.OtherFormats[1].URL = ConversionNeeded
    /\ gdOut.details.DownloadURL = NilURL

\* C15: without a primary link, and with a first other format that has a
\* real URL, the returned primary download URL is that URL, the primary
\* format is that format if none had been found, and the other formats are
\* the rest of the list in the same order.
C15_FirstRealFormatIsPromoted ==
    DetailsReturned /\ PreChecks.DownloadURL = NilURL
                    /\ Len(PreChecks.OtherFormats) > 0
                    /\ PreChecks.OtherFormats[1].URL # ConversionNeeded =>
        /\ gdOut.details.DownloadURL = PreChecks.OtherFormats[1].URL
        /\ PreChecks.FileFormat = NilStr =>
              /\ gdOut.details.FileFormat.set
              /\ gdOut.details.FileFormat.text = PreChecks.OtherFormats[1].Format
        /\ Len(gdOut.details.OtherFormats) = Len(PreChecks.OtherFormats) - 1
        /\ \A i \in 1..Len(gdOut.details.OtherFormats) :
              gdOut.details.OtherFormats[i] = PreChecks.OtherFormats[i + 1]

C15_Witness ==
    /\ DetailsReturned
    /\ PreChecks.DownloadURL = NilURL
    /\ PreChecks.FileFormat = NilStr
    /\ Len(PreChecks.OtherFormats) = 2
    /\ PreChecks.OtherFormats[1].URL.kind = "resolved"
    /\ gdOut.details.DownloadURL = PreChecks.OtherFormats[1].URL
    /\ Len(gdOut.details.OtherFormats) = 1

\* C17: a 200 response whose body parses yields details and no error,
\* whatever the page holds; the details are nil exactly when the error is
\* not.
C17_BestEffortDetails ==
    gdPc = "returned" =>
        /\ ~gdResp.err /\ gdResp.status = 200 /\ gdResp.parses =>
              gdOut.details # NilBook /\ gdOut.err = "nil"
        /\ gdOut.details = NilBook <=> gdOut.err # "nil"

\* a page on which no format and no download link is found
C17_Witness ==
    /\ DetailsReturned
    /\ gdResp.page.primary.found /\ ~gdResp.page.primary.href.resolves
    /\ gdOut.details.DownloadURL = NilURL
    /\ gdOut.details.FileFormat = NilStr
    /\ gdOut.details.OtherFormats = <<>>

(***************************************************************************)
(* Claims about the update signal.                                         *)
(***************************************************************************)
\* C18: a task at its signalUpdate call can always take the step; at most
\* one notification is buffered; a notification is buffered whenever
\* signalUpdate was called since the last drain; and a state change that no
\* frame has drawn has a notification buffered or its signalUpdate call
\* still to come.
C18_SignalsCoalesce ==
    /\ \A t \in Tasks : taskPc[t] = "signal" => ENABLED SignalUpdate(t)
    /\ updateSignal <= 1
    /\ signalsSinceDrain > 0 => updateSignal = 1
    /\ shown < changes =>
          updateSignal = 1 \/ \E t \in Tasks : taskPc[t] = "signal"

\* three tasks have signalled since the last drain and one notification is
\* buffered
C18_Witness ==
    /\ signalsSinceDrain = 3
    /\ updateSignal = 1
    /\ shown < changes


\* C21: every read of the image cache map happens under the read lock and
\* every write under the write lock, no write overlaps another access of the
\* map, an entry holds the texture of one of the fetches of its URL that
\* succeeded, and a fetch that failed never inserts.
C21_CacheAccessIsLocked ==
    /\ \A p \in {UIThread} \cup TextureFetches :
          icPc[p] = "reading" => p \in cacheReaders
    /\ \A t \in TextureFetches :
          icPc[t] = "writing" =>
             /\ t \in cacheWriters
             /\ \A q \in ({UIThread} \cup TextureFetches) \ {t} :
                   icPc[q] \notin {"reading", "writing"}
    /\ \A u \in CoverURLs :
          imageCache[u] # NoTexture =>
             \E t \in TextureFetches :
                /\ icURL[t] = u /\ icResult[t] = "ok"
                /\ imageCache[u] = Texture(t)
    /\ \A i \in 1..Len(icWrites) : icResult[icWrites[i].by] = "ok"
C21_Witness ==
    /\ Len(icWrites) = 2
    /\ icWrites[1].url = icWrites[2].url
    /\ icWrites[1].by # icWrites[2].by
    /\ imageCache[icWrites[2].url] = Texture(icWrites[2].by)
    /\ \A t \in TextureFetches : icPc[t] = "done"


\* C22: SanitizeFilename returns a non-empty text of at most 200 bytes with
\* none of \ / * ? : " < > |, no run of two or more dots, no run of two or
\* more whitespace characters, and neither a dot nor a space at either end.
C22_SanitizedIsWellFormed ==
    sfPc = "returned" =>
       /\ sfOut # <<>>
       /\ Len(sfOut) <= 200
       /\ \A i \in 1..Len(sfOut) : sfOut[i] \notin IllegalChars
       /\ \A i \in 1..(Len(sfOut) - 1) :
             /\ ~(sfOut[i] = "." /\ sfOut[i + 1] = ".")
             /\ ~(IsWhitespace(sfOut[i]) /\ IsWhitespace(sfOut[i + 1]))
       /\ sfOut[1] \notin {".", " "}
       /\ sfOut[Len(sfOut)] \notin {".", " "}


\* C23: a result card whose z-bookcard is absent or has no href still yields
\* a result, taken from its title link, when that link is valid; and a card
\* whose z-bookcard has an href never takes its URL from the title link.
C23_FallbackWhenPrimaryYieldsNothing ==
    (srPc = "returned" /\ ~srResp.err /\ srResp.status = 200 /\ srResp.parses) =>
        \A k \in 1..Len(srResp.page) :
           LET card == srResp.page[k]
               TakenFrom(from) ==
                  \E j \in 1..Len(srOut.results) :
                     srOut.results[j].URL = ResolveURL(srResp.final, from, k - 1)
           IN  /\ (card.zb \in {"absent", "emptyhref"} /\ card.link = "ok")
                     => TakenFrom("link")
               /\ card.zb \in {"ok", "badhref"} => ~TakenFrom("link")


\* C24: a new search is never started while a previous one is in progress:
\* between the launch of a performSearch task with a query and its completion
\* no second one is launched.
C24_OneSearchAtATime ==
    Cardinality({t \in SearchTasks :
                    /\ spPc[t] \in {"launched", "searching"}
                    /\ TrimSpace(spQuery[t]) # <<>>}) <= 1

\* C25: at most one download is in flight: no second startActualDownload is
\* started while an earlier one has not finished.
C25_OneDownloadAtATime ==
    Cardinality({t \in DownloadTasks : dtPc[t] \in {"launched", "running"}}) <= 1


\* C26: every started download terminates: the producer gets past every
\* send, the channel is closed, the consumer's loop exits and the downloading
\* state is reset.
C26_DownloadTerminates ==
    (dlPc # "idle") ~>
        (dlPc = "done" /\ chClosed /\ cPc = "done" /\ ~isDownloading)
\* the consumer has left its loop on an error event that the writer enqueued
\* into a full buffer's last place, and the producer has still got through
C26_Witness ==
    /\ dlPc = "done" /\ cPc = "done" /\ chClosed /\ ~isDownloading
    /\ Len(sentLog) > ChanCap
    /\ \E i \in 1..Len(sentLog) :
          sentLog[i].src = "writer" /\ sentLog[i].ev.err # "nil"
    /\ Len(progCh) > 0


\* C27: the consumer reports 'download complete' exactly when the producer's
\* copy finished without error and left the file on disk, and 'download
\* failed' exactly when the producer enqueued an event carrying an error.
C27_OutcomeMatchesProducer ==
    cPc = "done" =>
       /\ dlOutcome \in {"complete", "failed"}
       /\ dlOutcome = "complete" <=> (copyErr = "nil" /\ destFile.kind = "new")
       /\ dlOutcome = "failed" <=>
             \E i \in 1..Len(sentLog) : sentLog[i].ev.err # "nil"
\* a download reported complete although progress events were dropped on the
\* way
C27_Witness ==
    /\ cPc = "done"
    /\ dlOutcome = "complete"
    /\ copyErr = "nil"
    /\ Len(dropLog) > 0


\* C28: whenever the page yields an alternate format with a real download
\* URL, the returned details have a real primary download URL, never none
\* and never the conversion sentinel; and in the other formats as built every
\* entry with a real URL precedes every entry with the sentinel.
C28_RealFormatsFirst ==
    DetailsReturned =>
        LET built == PreChecks.OtherFormats IN
          /\ (\E i \in 1..Len(built) : built[i].URL.kind = "resolved")
                => gdOut.details.DownloadURL.kind = "resolved"
          /\ \A i, j \in 1..Len(built) :
                (i < j /\ built[i].URL = ConversionNeeded)
                   => built[j].URL = ConversionNeeded
\* no primary link, two real alternates and a conversion after them
C28_Witness ==
    /\ DetailsReturned
    /\ PreChecks.DownloadURL = NilURL
    /\ Len(PreChecks.OtherFormats) = 3
    /\ PreChecks.OtherFormats[2].URL.kind = "resolved"
    /\ PreChecks.OtherFormats[3].URL = ConversionNeeded
    /\ gdOut.details.DownloadURL.kind = "resolved"


\* C29: lastReferrer is never the empty string, so every request carries a
\* Referer header; it is the base URL until the first response with a status
\* in [200,400), and as long as the calls have not overlapped it is the final
\* URL of the most recent such response.
C29_ReferrerNeverEmpty ==
    /\ lastReferrer.ptr # "" /\ lastReferrer.len # ""
    /\ \A p \in Callers :
          mrPc[p] = "do" => mrRef[p].ptr # "" /\ mrRef[p].len # ""
    /\ ( /\ \A i \in 1..Len(callLog) :
               callLog[i].err \/ callLog[i].status \notin 200..399
         /\ \A p \in Callers : ~Storing(p) )
          => lastReferrer = Whole(BaseURL)
    /\ (~overlapped /\ InFlight = {})
          => lastReferrer = Whole(LastNavigated(callLog))
\* two calls run at once, one is about to send its request with the Referer
\* it loaded and the other is half way through its store
C29_Witness ==
    /\ overlapped
    /\ mrPc[1] = "do"
    /\ mrPc[2] = "storeLen"
    /\ ~IsWhole(lastReferrer)
    /\ Len(callLog) > 0


\* C30: every started search eventually completes, on every outcome, and
\* when it has completed isSearching is false again and the result list shown
\* is the list the search returned, partial results with an error included.
C30_SearchCompletes ==
    /\ (psPc = "calling") ~> (psPc = "done")
    /\ [](psPc = "done" =>
            /\ ~isSearching
            /\ searchResults = srOut.results
            /\ searchResultErr = srOut.err)
\* a search that returned one result and an error for the other card
C30_Witness ==
    /\ psPc = "done"
    /\ ~isSearching
    /\ srOut.err # NilError
    /\ Len(srOut.results) = 1
    /\ searchResults = srOut.results

====
